---------------------------- MODULE Spec2Model ----------------------------
(***************************************************************************)
(* A model of the hgraph time-series runtime.                              *)
(*                                                                         *)
(* The graph has four nodes in build order: two source nodes writing the   *)
(* outputs O1 and O2, a node that owns a reference output R (and re-binds  *)
(* inputs), and a consumer with the two inputs a and b.                    *)
(*                                                                         *)
(* Spec      the input side (PythonBoundTimeSeriesInput of                 *)
(*           hg/_impl/_types/_input.py): make_active, make_passive and     *)
(*           bind_output called in any order, before and after the start   *)
(*           of the graph, interleaved with output commits, changes of the *)
(*           reference and ticks of the engine clock.                      *)
(* SpecEval  the evaluator: ticks in which the pending nodes are evaluated *)
(*           in rank order.                                                *)
(* SpecBuff  the buffer outputs of hgraph/_impl/_types/_buff.py under an   *)
(*           evaluation clock.                                             *)
(* SpecSched the scheduler (schedule, future events, ticks) driving a      *)
(*           graph with a feedback edge.                                   *)
(* SpecMap   a map node over a TSD whose keys come and go.                 *)
(* SpecLife  start, evaluation and stop of the nodes of a graph.           *)
(* SpecPush  push-source nodes fed by sender calls of foreign threads.     *)
(* SpecPub   the TSD table-publishing node of                              *)
(*           hgraph/adaptors/perspective/_perspetive_publish.py.           *)
(* SpecWire  overload selection of an operator                             *)
(*           (hgraph/_wiring/_wiring_node_class/_operator_wiring_node.py). *)
(* SpecDec   the node decorators of hg/_decorators.py.                     *)
(* SpecInsp  the inspector's handlers of hgraph/debug/_inspector_handler.py*)
(*           (show, expand, collapse, subscribe and unsubscribe of items). *)
(* SpecReq   the inspector's request queue and its futures.                *)
(* SpecMgr   the manager of the published tables                           *)
(*           (hgraph/adaptors/perspective/_perspective.py).                *)
(*                                                                         *)
(* The output base class, the node, the scheduler, the evaluator, the TSD, *)
(* the map node and the push-source queue are not part of the sources at   *)
(* hand; they are modelled from the design document (spec.md, sections 3,  *)
(* 4.1 to 4.5, 5 and 6).  So are the inspector's item ids, its graph       *)
(* observer and its request queue.                                         *)
(***************************************************************************)
EXTENDS Integers, Sequences, FiniteSets, TLC

VARIABLES
    \* ---- evaluator and nodes
    now,                 \* engine time (current_engine_time)
    started,             \* node -> is_started
    pending,             \* pending_now: nodes to evaluate at this tick
    \* ---- time-series outputs
    value,               \* output -> <<>> (none) or <<v>>
    last_modified_time,  \* output -> engine time
    valid,               \* output -> BOOLEAN
    subscribers,         \* output -> set of nodes
    refValue,            \* the reference output's value: an output or None
    observers,           \* inputs observing the reference output
    \* ---- time-series inputs
    active,              \* input -> _active
    output,              \* input -> _output (an output or None)
    reference_output,    \* input -> _reference_output
    sample_time,         \* input -> _sample_time
    \* ---- history of the current tick and of the last operation
    evalCount,           \* node -> evaluations at this tick
    evalOrder,           \* nodes in the order they were evaluated at this tick
    notified,            \* nodes notified at this tick
    sampled,             \* inputs a direct sample was delivered to at this tick
    written,             \* output -> the value committed at this tick, or <<>>
    seen,                \* input -> what the consumer read at its last evaluation
    calls,               \* calls made by the last step: subscribe, un-subscribe, notify
    \* ---- buffer outputs (SpecBuff)
    bnow,                \* evaluation_clock.evaluation_time
    ibuf,                \* PythonTimeSeriesIBufferValueOutput
    tbuf,                \* PythonTimeSeriesTBufferValueOutput
    blast,               \* the last buffer operation
    \* ---- scheduler and feedback edge (SpecSched)
    engine_now,          \* engine.now
    pending_now,         \* nodes to evaluate at the current tick
    future_events,       \* scheduled events (at, node)
    ticks,               \* the engine times of the ticks so far
    fb,                  \* the feedback graph: outputs, staged value, history
    \* ---- further components, one record each
    mp,                  \* a map node over a TSD (SpecMap)
    lc,                  \* the lifecycle of the nodes of a graph (SpecLife)
    pq,                  \* push-source queues (SpecPush)
    pub,                 \* the TSD table-publishing node (SpecPub)
    ow,                  \* an operator and its overloads (SpecWire)
    dec,                 \* the wiring node made by a node decorator (SpecDec)
    insp,                \* the inspector (SpecInsp, SpecReq)
    ptm                  \* the manager of the published tables (SpecMgr)

evars == <<now, started, pending, value, last_modified_time, valid, subscribers,
           refValue, observers, active, output, reference_output, sample_time,
           evalCount, evalOrder, notified, sampled, written, seen, calls>>
bvars == <<bnow, ibuf, tbuf, blast>>
svars == <<engine_now, pending_now, future_events, ticks, fb>>
xvars == <<mp, lc, pq, pub, ow, dec>>
yvars == <<insp, ptm>>
vars == <<evars, bvars, svars, xvars, yvars>>

---------------------------------------------------------------------------
\* Bounds and the fixed graph

MaxTime == 2
BuffMaxTime == 5
ISize == 2
TSize == 1
SchedMaxTime == 4
MIN_DT == 0
MIN_TD == -1

None == "None"
RefOut == "R"
Outputs == {"O1", "O2"}
Inputs == {"a", "b"}
InputOrder == <<"a", "b">>
Nodes == 1..4
Sources == {1, 2}
Binder == 3
Consumer == 4
Values == {7, 9}

\* The node that writes an output.
OutputOwner(o) == IF o = "O1" THEN 1 ELSE 2
NodeOutput(n) == IF n = 1 THEN "O1" ELSE "O2"

\* owning_node of an input: both inputs belong to the consumer.
owning_node(i) == Consumer

---------------------------------------------------------------------------
\* The methods of an input and of an output, as functions on the part of
\* the state they touch.  s.nsub, s.nunsub and s.nnotify count the calls of
\* subscribe_node, un_subscribe_node and Node.notify made since the record
\* was taken.

Cur(pend) ==
    [active |-> active, output |-> output, reference_output |-> reference_output,
     sample_time |-> sample_time, subscribers |-> subscribers,
     observers |-> observers, value |-> value,
     last_modified_time |-> last_modified_time, valid |-> valid,
     pending |-> pend, notified |-> notified, sampled |-> sampled,
     nsub |-> 0, nunsub |-> 0, nnotify |-> 0]

\* TimeSeriesOutput.subscribe_node / un_subscribe_node: the subscribers are a
\* set of nodes, each node listed at most once.
subscribe_node(s, o, n) ==
    [s EXCEPT !.subscribers[o] = @ \cup {n}, !.nsub = @ + 1]

un_subscribe_node(s, o, n) ==
    [s EXCEPT !.subscribers[o] = @ \ {n}, !.nunsub = @ + 1]

\* Node.notify: insert the node into the pending set of the current tick, if
\* not already present.
notify(s, n) ==
    [s EXCEPT !.pending = @ \cup {n}, !.notified = @ \cup {n}, !.nnotify = @ + 1]

\* TimeSeriesOutput.mark_modified: last_modified_time = engine.now, the output
\* is valid, and every subscriber is notified for this tick.
mark_modified(s, o) ==
    [s EXCEPT !.last_modified_time[o] = now,
              !.valid[o] = TRUE,
              !.pending = @ \cup s.subscribers[o],
              !.notified = @ \cup s.subscribers[o],
              !.nnotify = @ + Cardinality(s.subscribers[o])]

\* TimeSeriesOutput.apply_result: a result of none is not committed.
apply_result(s, o, r) ==
    IF r = <<>> THEN s ELSE mark_modified([s EXCEPT !.value[o] = r], o)

bound(s, i) == s.output[i] # None

\* make_active without the test of the active flag.
make_active_unguarded(s, i) ==
    LET s1 == [s EXCEPT !.active[i] = TRUE]
    IN  IF bound(s1, i) THEN subscribe_node(s1, s1.output[i], owning_node(i))
                        ELSE s1

make_active(s, i) ==
    IF ~s.active[i]
    THEN LET s1 == [s EXCEPT !.active[i] = TRUE]
         IN  IF bound(s1, i) THEN subscribe_node(s1, s1.output[i], owning_node(i))
                             ELSE s1
    ELSE s

make_passive(s, i) ==
    IF s.active[i]
    THEN LET s1 == [s EXCEPT !.active[i] = FALSE]
         IN  IF bound(s1, i) THEN un_subscribe_node(s1, s1.output[i], owning_node(i))
                             ELSE s1
    ELSE s

\* do_bind_output without the make_passive that leaves the old output.
do_bind_output_keeps_old(s, i, o) ==
    LET s2 == [s EXCEPT !.output[i] = o]
    IN  IF s.active[i] THEN make_active(s2, i) ELSE s2

do_bind_output(s, i, o) ==
    LET act == s.active[i]
        s1 == make_passive(s, i)
        s2 == [s1 EXCEPT !.output[i] = o]
    IN  IF act THEN make_active(s2, i) ELSE s2

\* bind_output notifying whether or not the input is active.
bind_sample_always_notifies(s, i) ==
    IF started[owning_node(i)] /\ s.output[i] # None /\ s.valid[s.output[i]]
    THEN notify([s EXCEPT !.sample_time[i] = now, !.sampled = @ \cup {i}], owning_node(i))
    ELSE s

\* bind_output taking the sample without notifying.
bind_sample_never_notifies(s, i) ==
    IF started[owning_node(i)] /\ s.output[i] # None /\ s.valid[s.output[i]]
    THEN [s EXCEPT !.sample_time[i] = now, !.sampled = @ \cup {i}]
    ELSE s

\* bind_output notifying the node that owns the output instead of the node
\* that owns the input.
bind_sample_notifies_writer(s, i) ==
    IF started[owning_node(i)] /\ s.output[i] # None /\ s.valid[s.output[i]]
    THEN LET s1 == [s EXCEPT !.sample_time[i] = now, !.sampled = @ \cup {i}]
         IN  IF s1.active[i] THEN notify(s1, OutputOwner(s.output[i])) ELSE s1
    ELSE s

\* The tail of bind_output (lines 86-89): a direct sample of an output that
\* is already valid.
bind_sample(s, i) ==
    IF started[owning_node(i)] /\ s.output[i] # None /\ s.valid[s.output[i]]
    THEN LET s1 == [s EXCEPT !.sample_time[i] = now, !.sampled = @ \cup {i}]
         IN  IF s1.active[i] THEN notify(s1, owning_node(i)) ELSE s1
    ELSE s

\* bind_output(value) for a value that is not a reference output.
bind_peer(s, i, o) == bind_sample(do_bind_output(s, i, o), i)

\* TimeSeriesReference.bind_input: bind the input to the output referred to.
bind_input(s, ref, i) == bind_peer(s, i, ref)

\* bind_output(value): v is an output, or RefOut whose value is ref.
bind_output(s, i, v, ref) ==
    IF v = RefOut
    THEN LET s1 == IF ref # None THEN bind_input(s, ref, i) ELSE s
             s2 == [s1 EXCEPT !.observers = @ \cup {i},
                              !.reference_output[i] = RefOut]
         IN  bind_sample(s2, i)
    ELSE bind_peer(s, i, v)

\* Output.modified and Input.modified / value
OutModified(o) == last_modified_time[o] = now

\* modified without the comparison of the sample time with the engine time.
modified_any_sample(i) ==
    (output[i] # None /\ OutModified(output[i])) \/ sample_time[i] # MIN_DT

modified(i) ==
    (output[i] # None /\ OutModified(output[i]))
    \/ (sample_time[i] # MIN_DT /\ sample_time[i] = now)

InputValue(i) == IF output[i] = None THEN <<>> ELSE value[output[i]]

\* Input.valid
input_valid(i) == output[i] # None /\ valid[output[i]]

\* last_modified_time of an input taken from the output alone.
input_last_modified_time_of_output(i) ==
    IF output[i] # None THEN last_modified_time[output[i]] ELSE MIN_DT

\* Input.last_modified_time
input_last_modified_time(i) ==
    IF output[i] # None
    THEN (IF last_modified_time[output[i]] >= sample_time[i]
          THEN last_modified_time[output[i]] ELSE sample_time[i])
    ELSE MIN_DT

\* The reference output ticks with a new target: every observing input is
\* bound to the new target.
RECURSIVE rebind_observers(_, _, _)
rebind_observers(s, target, k) ==
    IF k > Len(InputOrder) THEN s
    ELSE LET i == InputOrder[k]
         IN  rebind_observers(IF i \in s.observers THEN bind_input(s, target, i) ELSE s,
                              target, k + 1)

---------------------------------------------------------------------------
\* Construction

NoCalls == [nsub |-> 0, nunsub |-> 0, nnotify |-> 0]

NoSeen == [val |-> <<>>, out |-> None, act |-> FALSE]

EInit ==
    /\ now = MIN_DT
    /\ started = [n \in Nodes |-> FALSE]
    /\ pending = {}
    /\ value = [o \in Outputs |-> <<>>]
    /\ last_modified_time = [o \in Outputs |-> MIN_DT]
    /\ valid = [o \in Outputs |-> FALSE]
    /\ subscribers = [o \in Outputs |-> {}]
    /\ refValue = None
    /\ observers = {}
    /\ active = [i \in Inputs |-> FALSE]
    /\ output = [i \in Inputs |-> None]
    /\ reference_output = [i \in Inputs |-> None]
    /\ sample_time = [i \in Inputs |-> MIN_DT]
    /\ evalCount = [n \in Nodes |-> 0]
    /\ evalOrder = <<>>
    /\ notified = {}
    /\ sampled = {}
    /\ written = [o \in Outputs |-> <<>>]
    /\ seen = [i \in Inputs |-> NoSeen]
    /\ calls = NoCalls

\* Store the state s1 and the calls that led to it.
Store(s1) ==
    /\ active' = s1.active
    /\ output' = s1.output
    /\ reference_output' = s1.reference_output
    /\ sample_time' = s1.sample_time
    /\ subscribers' = s1.subscribers
    /\ observers' = s1.observers
    /\ value' = s1.value
    /\ last_modified_time' = s1.last_modified_time
    /\ valid' = s1.valid
    /\ pending' = s1.pending
    /\ notified' = s1.notified
    /\ sampled' = s1.sampled
    /\ calls' = [nsub |-> s1.nsub, nunsub |-> s1.nunsub, nnotify |-> s1.nnotify]

Running == \A n \in Nodes : started[n]

---------------------------------------------------------------------------
\* Spec: the operations of the inputs, called in any order

MakeActive(i) ==
    /\ Store(make_active(Cur(pending), i))
    /\ UNCHANGED <<now, started, refValue, evalCount, evalOrder, written, seen, bvars, svars, xvars, yvars>>

MakePassive(i) ==
    /\ Store(make_passive(Cur(pending), i))
    /\ UNCHANGED <<now, started, refValue, evalCount, evalOrder, written, seen, bvars, svars, xvars, yvars>>

BindOutput(i, v) ==
    /\ Store(bind_output(Cur(pending), i, v, refValue))
    /\ UNCHANGED <<now, started, refValue, evalCount, evalOrder, written, seen, bvars, svars, xvars, yvars>>

\* Start: the engine sets its clock to the start time of the run and walks
\* the nodes in build order.
StartNode(n) ==
    /\ ~started[n]
    /\ \A m \in Nodes : m < n => started[m]
    /\ started' = [started EXCEPT ![n] = TRUE]
    /\ now' = IF now = MIN_DT THEN MIN_DT + 1 ELSE now
    /\ calls' = NoCalls
    /\ UNCHANGED <<pending, value, last_modified_time, valid, subscribers,
                   refValue, observers, active, output, reference_output,
                   sample_time, evalCount, evalOrder, notified, sampled, written,
                   seen, bvars, svars, xvars, yvars>>

\* The value a source node produces in Spec (scenario S6: O1 valued 7, O2
\* valued 9).
SourceValue(o) == IF o = "O1" THEN <<7>> ELSE <<9>>

\* The node owning output o commits the result of its evaluation; the
\* precondition of apply_result is can_apply_result: not modified at this tick.
Commit(o) ==
    /\ Running
    /\ ~OutModified(o)
    /\ Store(apply_result(Cur(pending), o, SourceValue(o)))
    /\ written' = [written EXCEPT ![o] = SourceValue(o)]
    /\ UNCHANGED <<now, started, refValue, evalCount, evalOrder, seen, bvars, svars, xvars, yvars>>

\* The reference output ticks with the new target t.
RefSwitch(t) ==
    /\ Running
    /\ t # refValue
    /\ refValue' = t
    /\ Store(rebind_observers(Cur(pending), t, 1))
    /\ UNCHANGED <<now, started, evalCount, evalOrder, written, seen, bvars, svars, xvars, yvars>>

\* The tick is over (every pending node was evaluated) and the engine moves
\* to the next event time.
AdvanceTime ==
    /\ Running
    /\ now < MaxTime
    /\ now' = now + 1
    /\ pending' = {}
    /\ notified' = {}
    /\ sampled' = {}
    /\ written' = [o \in Outputs |-> <<>>]
    /\ calls' = NoCalls
    /\ UNCHANGED <<started, value, last_modified_time, valid, subscribers,
                   refValue, observers, active, output, reference_output,
                   sample_time, evalCount, evalOrder, seen, bvars, svars, xvars, yvars>>

---------------------------------------------------------------------------
\* SpecEval: the evaluator

Blank ==
    [active |-> [i \in Inputs |-> FALSE], output |-> [i \in Inputs |-> None],
     reference_output |-> [i \in Inputs |-> None],
     sample_time |-> [i \in Inputs |-> MIN_DT],
     subscribers |-> [o \in Outputs |-> {}], observers |-> {},
     value |-> [o \in Outputs |-> <<>>],
     last_modified_time |-> [o \in Outputs |-> MIN_DT],
     valid |-> [o \in Outputs |-> FALSE],
     pending |-> {}, notified |-> {}, sampled |-> {},
     nsub |-> 0, nunsub |-> 0, nnotify |-> 0]

\* The graph as wired: input a follows the reference output, input b is
\* bound to the output ob; each input is active or passive.
Wired(ob, aa, ab) ==
    LET s1 == bind_output(Blank, "a", RefOut, None)
        s2 == bind_output(s1, "b", ob, None)
        s3 == IF aa THEN make_active(s2, "a") ELSE s2
    IN  IF ab THEN make_active(s3, "b") ELSE s3

\* The graph is wired and every node is started; the clock is at the start
\* time of the run with nothing scheduled yet.
EvalInit ==
    /\ now = MIN_DT
    /\ started = [n \in Nodes |-> FALSE]
    /\ refValue = None
    /\ evalCount = [n \in Nodes |-> 0]
    /\ evalOrder = <<>>
    /\ written = [o \in Outputs |-> <<>>]
    /\ seen = [i \in Inputs |-> NoSeen]
    /\ calls = NoCalls
    /\ \E ob \in Outputs, aa \in BOOLEAN, ab \in BOOLEAN :
         LET s == Wired(ob, aa, ab)
         IN  /\ active = s.active
             /\ output = s.output
             /\ reference_output = s.reference_output
             /\ sample_time = s.sample_time
             /\ subscribers = s.subscribers
             /\ observers = s.observers
             /\ value = s.value
             /\ last_modified_time = s.last_modified_time
             /\ valid = s.valid
             /\ pending = s.pending
             /\ notified = s.notified
             /\ sampled = s.sampled

\* Start: the engine sets its clock to the start time of the run and starts
\* every node, in build order; S are the nodes with an event at the start
\* time, which is the first tick.
StartAll(S) ==
    /\ ~Running
    /\ started' = [n \in Nodes |-> TRUE]
    /\ now' = MIN_DT + 1
    /\ pending' = S
    /\ notified' = S
    /\ UNCHANGED <<value, last_modified_time, valid, subscribers,
                   refValue, observers, active, output, reference_output,
                   sample_time, evalCount, evalOrder, sampled, written,
                   seen, calls, bvars, svars, xvars, yvars>>

\* Main loop, steps 1-3: the tick is over, the engine advances to the next
\* event time and drains the events scheduled for it (for the nodes S) into
\* the pending set.
Tick(S) ==
    /\ Running
    /\ pending = {}
    /\ now < MaxTime
    /\ S # {}
    /\ now' = now + 1
    /\ pending' = S
    /\ notified' = S
    /\ evalCount' = [n \in Nodes |-> 0]
    /\ evalOrder' = <<>>
    /\ sampled' = {}
    /\ written' = [o \in Outputs |-> <<>>]
    /\ seen' = [i \in Inputs |-> NoSeen]
    /\ calls' = NoCalls
    /\ UNCHANGED <<started, value, last_modified_time, valid, subscribers,
                   refValue, observers, active, output, reference_output,
                   sample_time, bvars, svars, xvars, yvars>>

\* The pending node of highest rank first.
IsNextHighest(n) == n \in pending /\ \A m \in pending : m <= n

\* Main loop, step 4: the next node is the pending node of lowest rank.
IsNext(n) == n \in pending /\ \A m \in pending : n <= m

\* The node leaves the pending set and its eval runs.
Pop(n) ==
    /\ evalCount' = [evalCount EXCEPT ![n] = @ + 1]
    /\ evalOrder' = Append(evalOrder, n)

\* A source node: eval returns r, which apply_result commits.
EvalSource(n, r) ==
    /\ Running /\ n \in Sources /\ IsNext(n)
    /\ Pop(n)
    /\ Store(apply_result(Cur(pending \ {n}), NodeOutput(n), r))
    /\ written' = IF r = <<>> THEN written ELSE [written EXCEPT ![NodeOutput(n)] = r]
    /\ UNCHANGED <<now, started, refValue, seen, bvars, svars, xvars, yvars>>

\* The node owning the reference output: eval leaves the reference alone,
\* points it at another output, or binds an input of the consumer.
BinderIdle ==
    /\ Running /\ IsNext(Binder)
    /\ Pop(Binder)
    /\ Store(Cur(pending \ {Binder}))
    /\ UNCHANGED <<now, started, refValue, written, seen, bvars, svars, xvars, yvars>>

BinderSwitch(t) ==
    /\ Running /\ IsNext(Binder)
    /\ t # refValue
    /\ Pop(Binder)
    /\ refValue' = t
    /\ Store(rebind_observers(Cur(pending \ {Binder}), t, 1))
    /\ UNCHANGED <<now, started, written, seen, bvars, svars, xvars, yvars>>

BinderBind(i, v) ==
    /\ Running /\ IsNext(Binder)
    /\ Pop(Binder)
    /\ Store(bind_output(Cur(pending \ {Binder}), i, v, refValue))
    /\ UNCHANGED <<now, started, refValue, written, seen, bvars, svars, xvars, yvars>>

\* The consumer: eval reads its inputs and may change the activity of one.
Read == [i \in Inputs |-> [val |-> InputValue(i), out |-> output[i], act |-> active[i]]]

ConsumerIdle ==
    /\ Running /\ IsNext(Consumer)
    /\ Pop(Consumer)
    /\ seen' = Read
    /\ Store(Cur(pending \ {Consumer}))
    /\ UNCHANGED <<now, started, refValue, written, bvars, svars, xvars, yvars>>

ConsumerMakeActive(i) ==
    /\ Running /\ IsNext(Consumer)
    /\ Pop(Consumer)
    /\ seen' = Read
    /\ Store(make_active(Cur(pending \ {Consumer}), i))
    /\ UNCHANGED <<now, started, refValue, written, bvars, svars, xvars, yvars>>

ConsumerMakePassive(i) ==
    /\ Running /\ IsNext(Consumer)
    /\ Pop(Consumer)
    /\ seen' = Read
    /\ Store(make_passive(Cur(pending \ {Consumer}), i))
    /\ UNCHANGED <<now, started, refValue, written, bvars, svars, xvars, yvars>>

---------------------------------------------------------------------------
\* SpecBuff: the buffer outputs

\* A result is <<>> (None) or <<v>>; v is of the buffer's scalar type _tp when
\* it is one of BuffValues, and of another type otherwise.
BuffValues == {1, 2}
Mistyped == {100}
Results == {<<>>} \cup {<<v>> : v \in BuffValues \cup Mistyped}
isinstance(r) == r[1] \in BuffValues

\* Python's % for a positive modulus.
PyMod(x, n) == ((x % n) + n) % n

Min(x, y) == IF x < y THEN x ELSE y
Max(x, y) == IF x < y THEN y ELSE x

\* Python's a[:n], for n of either sign.
PySlice(a, n) ==
    SubSeq(a, 1, IF n >= 0 THEN Min(n, Len(a)) ELSE Max(Len(a) + n, 0))

\* np.roll(a, k): the element at index i moves to index (i + k) % len(a).
np_roll(a, k) == [j \in 1..Len(a) |-> a[PyMod(j - 1 - k, Len(a)) + 1]]

\* np.ndarray(shape=[size]) does not initialise its slots: they hold whatever
\* the allocation left there, one of Garbage each.
Garbage == {0, 1}
NewArrays == [1..ISize -> Garbage]
\* np.full(shape=[size], fill_value=MIN_TD)
NewTimes(n) == [k \in 1..n |-> MIN_TD]

\* PythonTimeSeriesIBufferValueOutput as constructed with _min_size = m: the
\* dataclass defaults and __post_init__, g being the content of the fresh
\* array.  committed, notified, hist and inv are history: a sample was
\* committed at this tick, the subscribers were notified by the last call, the
\* samples written since construction or the last mark_invalid, mark_invalid
\* was called at least once.
NewIBuf(built, m, g) ==
    [built |-> built, min_size |-> m, value |-> g, times |-> NewTimes(ISize),
     start |-> -1, length |-> -1,
     last_modified_time |-> MIN_DT, valid |-> FALSE, committed |-> FALSE,
     notified |-> FALSE, hist |-> <<>>, inv |-> FALSE]

\* PythonTimeSeriesTBufferValueOutput as constructed with _size = TSize and
\* _min_size = m.
NewTBuf(built, m) ==
    [built |-> built, min_size |-> m, value |-> <<>>, times |-> <<>>,
     last_modified_time |-> MIN_DT, valid |-> FALSE, committed |-> FALSE,
     notified |-> FALSE, hist |-> <<>>, inv |-> FALSE]

\* PythonTimeSeriesOutput.modified: last_modified_time == engine.now
BuffModified(b) == b.last_modified_time = bnow

\* PythonTimeSeriesOutput.mark_modified
buff_mark_modified(b) ==
    [b EXCEPT !.last_modified_time = bnow, !.valid = TRUE, !.notified = TRUE]

\* PythonTimeSeriesOutput.mark_invalid: valid = false, subscribers notified.
buff_mark_invalid(b) == [b EXCEPT !.valid = FALSE, !.notified = TRUE]

\* can_apply_result answering yes whatever the state.
i_can_apply_result_always(b, r) == TRUE

i_can_apply_result(b, r) == ~BuffModified(b)

t_can_apply_result(b, r) == ~BuffModified(b)

\* The sample a well-typed result becomes.
Sample(r) == [v |-> r[1], t |-> bnow]

\* apply_result of the integer-sized buffer without the final mark_modified.
i_apply_result_unmarked(b, r) ==
    IF r = <<>> \/ ~isinstance(r) THEN b
    ELSE LET capacity == ISize
             length0 == b.length + 1
             wrap == length0 > capacity
             start == IF wrap THEN PyMod(b.start + 1, capacity) ELSE b.start
             length == IF wrap THEN capacity ELSE length0
             pos == PyMod(start + length - 1, capacity)
         IN  [b EXCEPT !.start = start, !.length = length,
                       !.value[pos + 1] = r[1], !.times[pos + 1] = bnow,
                       !.committed = TRUE, !.hist = Append(@, Sample(r))]

\* apply_result of the integer-sized buffer that does not move start when the
\* buffer is full.
i_apply_result_keeps_start(b, r) ==
    IF r = <<>> \/ ~isinstance(r) THEN b
    ELSE LET capacity == ISize
             length0 == b.length + 1
             wrap == length0 > capacity
             start == b.start
             length == IF wrap THEN capacity ELSE length0
             pos == PyMod(start + length - 1, capacity)
         IN  buff_mark_modified(
                 [b EXCEPT !.start = start, !.length = length,
                           !.value[pos + 1] = r[1], !.times[pos + 1] = bnow,
                           !.committed = TRUE, !.hist = Append(@, Sample(r))])

\* apply_result of the integer-sized buffer that marks the output modified
\* before it looks at the result.
i_apply_result_marks_none(b, r) ==
    IF r = <<>> THEN buff_mark_modified(b)
    ELSE IF ~isinstance(r) THEN b
    ELSE LET capacity == ISize
             length0 == b.length + 1
             wrap == length0 > capacity
             start == IF wrap THEN PyMod(b.start + 1, capacity) ELSE b.start
             length == IF wrap THEN capacity ELSE length0
             pos == PyMod(start + length - 1, capacity)
         IN  buff_mark_modified(
                 [b EXCEPT !.start = start, !.length = length,
                           !.value[pos + 1] = r[1], !.times[pos + 1] = bnow,
                           !.committed = TRUE, !.hist = Append(@, Sample(r))])

\* apply_result of the integer-sized buffer that stores the result before it
\* checks its type.
i_apply_result_checks_late(b, r) ==
    IF r = <<>> THEN b
    ELSE LET capacity == ISize
             length0 == b.length + 1
             wrap == length0 > capacity
             start == IF wrap THEN PyMod(b.start + 1, capacity) ELSE b.start
             length == IF wrap THEN capacity ELSE length0
             pos == PyMod(start + length - 1, capacity)
         IN  buff_mark_modified(
                 [b EXCEPT !.start = start, !.length = length,
                           !.value[pos + 1] = r[1], !.times[pos + 1] = bnow,
                           !.committed = TRUE, !.hist = Append(@, Sample(r))])

\* PythonTimeSeriesIBufferValueOutput.apply_result.  A result of None is
\* ignored; a result of another type raises before anything is written.
i_apply_result(b, r) ==
    IF r = <<>> \/ ~isinstance(r) THEN b
    ELSE LET capacity == ISize
             length0 == b.length + 1
             wrap == length0 > capacity
             start == IF wrap THEN PyMod(b.start + 1, capacity) ELSE b.start
             length == IF wrap THEN capacity ELSE length0
             pos == PyMod(start + length - 1, capacity)
         IN  buff_mark_modified(
                 [b EXCEPT !.start = start, !.length = length,
                           !.value[pos + 1] = r[1], !.times[pos + 1] = bnow,
                           !.committed = TRUE, !.hist = Append(@, Sample(r))])

\* PythonTimeSeriesTBufferValueOutput.apply_result
t_apply_result(b, r) ==
    IF r = <<>> \/ ~isinstance(r) THEN b
    ELSE buff_mark_modified(
             [b EXCEPT !.value = Append(@, r[1]), !.times = Append(@, bnow),
                       !.committed = TRUE, !.hist = Append(@, Sample(r))])

\* PythonTimeSeriesIBufferValueOutput.mark_invalid: fresh arrays (g is the
\* content of the new value array); _start and _length are left as they are.
i_mark_invalid(b, g) ==
    buff_mark_invalid([b EXCEPT !.value = g, !.times = NewTimes(ISize),
                                !.hist = <<>>, !.inv = TRUE])

\* PythonTimeSeriesTBufferValueOutput.mark_invalid
t_mark_invalid(b) ==
    buff_mark_invalid([b EXCEPT !.value = <<>>, !.times = <<>>, !.hist = <<>>,
                                !.inv = TRUE])

\* PythonTimeSeriesIBufferValueOutput._roll
i_roll(b) ==
    IF b.start # 0
    THEN [b EXCEPT !.value = np_roll(b.value, -b.start),
                   !.times = np_roll(b.times, -b.start),
                   !.start = 0]
    ELSE b

\* What a property returns: None, or a sequence.
ReturnNone == [none |-> TRUE, view |-> <<>>]
Return(x) == [none |-> FALSE, view |-> x]

\* PythonTimeSeriesIBufferValueOutput.value: the result (out) and the buffer
\* after the call (b).
i_value(b) ==
    LET capacity == ISize
        length == b.length
    IN  IF b.min_size < length
        THEN [out |-> ReturnNone, b |-> b]
        ELSE LET b1 == i_roll(b)
             IN  [out |-> Return(IF length # capacity THEN PySlice(b1.value, length)
                                                      ELSE b1.value),
                  b |-> b1]

\* PythonTimeSeriesIBufferValueOutput.value_times
i_value_times(b) == [out |-> Return(b.times), b |-> b]

\* The loop of delta_value over the slots size-2 .. 0 (i is the 0-based index).
RECURSIVE i_delta_scan(_, _)
i_delta_scan(b, i) ==
    IF i < 0 THEN ReturnNone
    ELSE IF b.times[i + 1] = MIN_TD THEN i_delta_scan(b, i - 1)
    ELSE IF b.times[i + 1] = bnow THEN Return(<<b.value[i + 1]>>)
    ELSE ReturnNone

\* PythonTimeSeriesIBufferValueOutput.delta_value
i_delta_value(b) ==
    LET tm == b.times[ISize]
    IN  [out |-> IF tm = bnow THEN Return(<<b.value[ISize]>>)
                 ELSE IF tm = MIN_TD THEN i_delta_scan(b, ISize - 2)
                 ELSE ReturnNone,
         b |-> b]

\* _roll of the duration-sized buffer that evicts the samples at the edge of
\* the window too.
RECURSIVE t_roll_evicts_edge(_)
t_roll_evicts_edge(b) ==
    LET tm == bnow - TSize
    IN  IF b.times # <<>> /\ b.times[1] <= tm
        THEN t_roll_evicts_edge([b EXCEPT !.times = Tail(@), !.value = Tail(@)])
        ELSE b

\* _roll of the duration-sized buffer that drops the timestamps that left the
\* window and keeps their values.
RECURSIVE t_roll_keeps_values(_)
t_roll_keeps_values(b) ==
    LET tm == bnow - TSize
    IN  IF b.times # <<>> /\ b.times[1] < tm
        THEN t_roll_keeps_values([b EXCEPT !.times = Tail(@)])
        ELSE b

\* PythonTimeSeriesTBufferValueOutput._roll
RECURSIVE t_roll(_)
t_roll(b) ==
    LET tm == bnow - TSize
    IN  IF b.times # <<>> /\ b.times[1] < tm
        THEN t_roll([b EXCEPT !.times = Tail(@), !.value = Tail(@)])
        ELSE b

\* PythonTimeSeriesTBufferValueOutput.value
t_value(b) == LET b1 == t_roll(b) IN [out |-> Return(b1.value), b |-> b1]

\* PythonTimeSeriesTBufferValueOutput.value_times
t_value_times(b) == LET b1 == t_roll(b) IN [out |-> Return(b1.times), b |-> b1]

\* PythonTimeSeriesTBufferValueOutput.delta_value
t_delta_value(b) ==
    [out |-> IF b.times # <<>> /\ b.times[Len(b.times)] = bnow
             THEN Return(<<b.value[Len(b.value)]>>)
             ELSE ReturnNone,
     b |-> b]

\* PythonTimeSeriesIBufferValueOutput.__len__: the capacity.
i_len(b) == [out |-> Return(<<ISize>>), b |-> b]

\* PythonTimeSeriesTBufferValueOutput.__len__
t_len(b) == LET b1 == t_roll(b) IN [out |-> Return(<<Len(b1.value)>>), b |-> b1]

\* first_modified_time of the integer-sized buffer.  The class does not define
\* the property; what a caller gets is the property of TimeSeriesBuffer, whose
\* body is a docstring: None.
i_first_modified_time(b) == [out |-> ReturnNone, b |-> b]

\* PythonTimeSeriesTBufferValueOutput.first_modified_time
t_first_modified_time(b) ==
    [out |-> Return(<<IF b.times # <<>> THEN b.times[1] ELSE MIN_TD>>), b |-> b]

\* PythonTimeSeriesBufferValueInput.first_modified_time: that of the bound
\* output.
input_first_modified_time(output_first_modified_time) ==
    output_first_modified_time

\* The last call on the buffer: its name, its argument (<<>> when it has
\* none), whether it raised, and what it returned.
Last(op, arg, raised, out) ==
    [op |-> op, arg |-> arg, raised |-> raised, out |-> out]

\* A call starts with no subscriber notified.
Call(b) == [b EXCEPT !.notified = FALSE]

BInit ==
    /\ bnow = MIN_DT + 1
    /\ \/ /\ \E m \in 0..ISize : \E g \in NewArrays : ibuf = NewIBuf(TRUE, m, g)
          /\ tbuf = NewTBuf(FALSE, 0)
       \/ /\ ibuf = NewIBuf(FALSE, 0, [k \in 1..ISize |-> 0])
          /\ \E m \in 0..TSize : tbuf = NewTBuf(TRUE, m)
    /\ blast = Last("init", <<>>, FALSE, ReturnNone)

\* No buffer output is built: the graphs of Spec and SpecEval have none.
BNone ==
    /\ bnow = MIN_DT + 1
    /\ ibuf = NewIBuf(FALSE, 0, [k \in 1..ISize |-> 0])
    /\ tbuf = NewTBuf(FALSE, 0)
    /\ blast = Last("init", <<>>, FALSE, ReturnNone)

\* The engine moves to the next tick.
BAdvance ==
    /\ bnow < BuffMaxTime
    /\ bnow' = bnow + 1
    /\ ibuf' = [ibuf EXCEPT !.committed = FALSE, !.notified = FALSE]
    /\ tbuf' = [tbuf EXCEPT !.committed = FALSE, !.notified = FALSE]
    /\ blast' = Last("advance", <<>>, FALSE, ReturnNone)
    /\ UNCHANGED <<evars, svars, xvars, yvars>>

\* The engine applies the result r of the owning node's evaluation: the
\* precondition of apply_result is can_apply_result.
IApply(r) ==
    /\ ibuf.built
    /\ i_can_apply_result(ibuf, r)
    /\ ibuf' = i_apply_result(Call(ibuf), r)
    /\ blast' = Last("apply_result", r, r # <<>> /\ ~isinstance(r), ReturnNone)
    /\ UNCHANGED <<bnow, tbuf, evars, svars, xvars, yvars>>

TApply(r) ==
    /\ tbuf.built
    /\ t_can_apply_result(tbuf, r)
    /\ tbuf' = t_apply_result(Call(tbuf), r)
    /\ blast' = Last("apply_result", r, r # <<>> /\ ~isinstance(r), ReturnNone)
    /\ UNCHANGED <<bnow, ibuf, evars, svars, xvars, yvars>>

IMarkInvalid(g) ==
    /\ ibuf.built
    /\ ibuf' = i_mark_invalid(Call(ibuf), g)
    /\ blast' = Last("mark_invalid", <<>>, FALSE, ReturnNone)
    /\ UNCHANGED <<bnow, tbuf, evars, svars, xvars, yvars>>

TMarkInvalid ==
    /\ tbuf.built
    /\ tbuf' = t_mark_invalid(Call(tbuf))
    /\ blast' = Last("mark_invalid", <<>>, FALSE, ReturnNone)
    /\ UNCHANGED <<bnow, ibuf, evars, svars, xvars, yvars>>

\* A node reads a property of the integer-sized buffer.
IValue ==
    /\ ibuf.built
    /\ ibuf' = i_value(Call(ibuf)).b
    /\ blast' = Last("value", <<>>, FALSE, i_value(Call(ibuf)).out)
    /\ UNCHANGED <<bnow, tbuf, evars, svars, xvars, yvars>>

IValueTimes ==
    /\ ibuf.built
    /\ ibuf' = i_value_times(Call(ibuf)).b
    /\ blast' = Last("value_times", <<>>, FALSE, i_value_times(Call(ibuf)).out)
    /\ UNCHANGED <<bnow, tbuf, evars, svars, xvars, yvars>>

IDeltaValue ==
    /\ ibuf.built
    /\ ibuf' = i_delta_value(Call(ibuf)).b
    /\ blast' = Last("delta_value", <<>>, FALSE, i_delta_value(Call(ibuf)).out)
    /\ UNCHANGED <<bnow, tbuf, evars, svars, xvars, yvars>>

\* A node reads a property of the duration-sized buffer.
TValue ==
    /\ tbuf.built
    /\ tbuf' = t_value(Call(tbuf)).b
    /\ blast' = Last("value", <<>>, FALSE, t_value(Call(tbuf)).out)
    /\ UNCHANGED <<bnow, ibuf, evars, svars, xvars, yvars>>

TValueTimes ==
    /\ tbuf.built
    /\ tbuf' = t_value_times(Call(tbuf)).b
    /\ blast' = Last("value_times", <<>>, FALSE, t_value_times(Call(tbuf)).out)
    /\ UNCHANGED <<bnow, ibuf, evars, svars, xvars, yvars>>

TDeltaValue ==
    /\ tbuf.built
    /\ tbuf' = t_delta_value(Call(tbuf)).b
    /\ blast' = Last("delta_value", <<>>, FALSE, t_delta_value(Call(tbuf)).out)
    /\ UNCHANGED <<bnow, ibuf, evars, svars, xvars, yvars>>

\* A node takes len() of the buffer output.
ILen ==
    /\ ibuf.built
    /\ ibuf' = i_len(Call(ibuf)).b
    /\ blast' = Last("len", <<>>, FALSE, i_len(Call(ibuf)).out)
    /\ UNCHANGED <<bnow, tbuf, evars, svars, xvars, yvars>>

TLen ==
    /\ tbuf.built
    /\ tbuf' = t_len(Call(tbuf)).b
    /\ blast' = Last("len", <<>>, FALSE, t_len(Call(tbuf)).out)
    /\ UNCHANGED <<bnow, ibuf, evars, svars, xvars, yvars>>

\* A node reads first_modified_time of an input bound to the buffer output.
IFirstModifiedTime ==
    /\ ibuf.built
    /\ ibuf' = i_first_modified_time(Call(ibuf)).b
    /\ blast' = Last("first_modified_time", <<>>, FALSE,
                     input_first_modified_time(i_first_modified_time(Call(ibuf)).out))
    /\ UNCHANGED <<bnow, tbuf, evars, svars, xvars, yvars>>

TFirstModifiedTime ==
    /\ tbuf.built
    /\ tbuf' = t_first_modified_time(Call(tbuf)).b
    /\ blast' = Last("first_modified_time", <<>>, FALSE,
                     input_first_modified_time(t_first_modified_time(Call(tbuf)).out))
    /\ UNCHANGED <<bnow, ibuf, evars, svars, xvars, yvars>>

NextBuff ==
    \/ BAdvance
    \/ \E r \in Results : IApply(r)
    \/ \E r \in Results : TApply(r)
    \/ \E g \in NewArrays : IMarkInvalid(g)
    \/ TMarkInvalid
    \/ IValue
    \/ IValueTimes
    \/ IDeltaValue
    \/ TValue
    \/ TValueTimes
    \/ TDeltaValue
    \/ ILen
    \/ TLen
    \/ IFirstModifiedTime
    \/ TFirstModifiedTime

---------------------------------------------------------------------------
\* SpecSched: the scheduler and a feedback edge
\*
\* The graph, in build order: the source node of the feedback edge (its
\* output f is what readers of the edge see), a compute node writing
\* x = 1 + f, the sink node of the feedback edge (it takes x), and a reader of
\* f that can be woken at any requested time.

FbSource == 1
FbCompute == 2
FbSink == 3
FbReader == 4
SNodes == {FbSource, FbCompute, FbSink, FbReader}

Event(at, n) == [at |-> at, node |-> n]

\* The scheduler's part of the state, as a record.
SCur ==
    [engine_now |-> engine_now, pending_now |-> pending_now,
     future_events |-> future_events, fb |-> fb]

\* schedule that inserts into future_events whatever the requested time.
schedule_no_coalesce(st, n, at) ==
    [st EXCEPT !.future_events = @ \cup {Event(at, n)}]

\* schedule(node, at): insert into future_events; a time at or before
\* engine.now is coalesced into pending_now.
schedule(st, n, at) ==
    IF at <= st.engine_now
    THEN [st EXCEPT !.pending_now = @ \cup {n}]
    ELSE [st EXCEPT !.future_events = @ \cup {Event(at, n)}]

\* notify(node): insert into pending_now.
sched_notify(st, n) == [st EXCEPT !.pending_now = @ \cup {n}]

\* A write through the feedback edge that is visible to readers at once.
feedback_write_visible(st, v) ==
    LET st1 == [st EXCEPT !.fb.f = <<v>>, !.fb.staged = <<v>>, !.fb.wrote = TRUE]
    IN  IF st.engine_now < SchedMaxTime
        THEN schedule(st1, FbSource, st.engine_now + 1)
        ELSE st1

\* A write through the feedback edge: the value is held back and the source
\* node of the edge is scheduled for the next engine cycle, where it puts the
\* value on its output and notifies the subscribers.  Events beyond the end
\* of the run are discarded.
feedback_write(st, v) ==
    LET st1 == [st EXCEPT !.fb.staged = <<v>>, !.fb.wrote = TRUE]
    IN  IF st.engine_now < SchedMaxTime
        THEN schedule(st1, FbSource, st.engine_now + 1)
        ELSE st1

\* The feedback graph as built: the edge initialised to 0, nothing written.
NewFb(reader_active) ==
    [f |-> <<>>, staged |-> <<0>>, x |-> <<>>, reader_active |-> reader_active,
     xs |-> <<>>, xlast |-> 0, wrote |-> FALSE, coalesced |-> FALSE,
     yread |-> FALSE, ysaw |-> <<>>]

\* The run starts with the source node of the feedback edge scheduled at the
\* start time.
SInit ==
    /\ engine_now = MIN_DT
    /\ pending_now = {}
    /\ future_events = {Event(MIN_DT + 1, FbSource)}
    /\ ticks = <<>>
    /\ \E a \in BOOLEAN : fb = NewFb(a)

\* No scheduler activity: the graphs of the other specifications.
SNone ==
    /\ engine_now = MIN_DT
    /\ pending_now = {}
    /\ future_events = {}
    /\ ticks = <<>>
    /\ fb = NewFb(FALSE)

SStore(st) ==
    /\ engine_now' = st.engine_now
    /\ pending_now' = st.pending_now
    /\ future_events' = st.future_events
    /\ fb' = st.fb

\* Evaluator main loop, steps 1-3: the next event time, engine.now, and the
\* drain of every future event with that time into pending_now.
STick ==
    /\ pending_now = {}
    /\ future_events # {}
    /\ LET t == CHOOSE u \in {e.at : e \in future_events} :
                    \A e \in future_events : u <= e.at
       IN  /\ engine_now' = t
           /\ pending_now' = {e.node : e \in {d \in future_events : d.at = t}}
           /\ future_events' = {e \in future_events : e.at # t}
           /\ ticks' = Append(ticks, t)
    /\ fb' = [fb EXCEPT !.xlast = IF fb.x = <<>> THEN 0 ELSE fb.x[1],
                        !.wrote = FALSE, !.coalesced = FALSE,
                        !.yread = FALSE, !.ysaw = <<>>]
    /\ UNCHANGED <<evars, bvars, xvars, yvars>>

\* Step 4: the pending node of lowest rank.
SIsNext(n) == n \in pending_now /\ \A m \in pending_now : n <= m

SPopped(n) == [SCur EXCEPT !.pending_now = @ \ {n}]

\* The source node of the feedback edge puts the value held back on its
\* output and notifies the subscribers of the output.
SEvalSource ==
    /\ SIsNext(FbSource)
    /\ LET st == SPopped(FbSource)
       IN  IF fb.staged = <<>>
           THEN SStore(st)
           ELSE LET st1 == [st EXCEPT !.fb.f = fb.staged, !.fb.staged = <<>>]
                    st2 == sched_notify(st1, FbCompute)
                IN  SStore(IF fb.reader_active THEN sched_notify(st2, FbReader)
                                               ELSE st2)
    /\ UNCHANGED <<ticks, evars, bvars, xvars, yvars>>

\* The compute node writes x = 1 + f; its output wakes the sink of the
\* feedback edge.  In the same evaluation the reader may be requested to wake
\* at the time at (req), whatever that time is.
SEvalCompute(req, at) ==
    /\ SIsNext(FbCompute)
    /\ LET st == SPopped(FbCompute)
           st1 == [st EXCEPT !.fb.x = <<1 + fb.f[1]>>,
                             !.fb.xs = Append(@, 1 + fb.f[1])]
           st2 == sched_notify(st1, FbSink)
       IN  SStore(IF req
                  THEN schedule([st2 EXCEPT !.fb.coalesced = at <= engine_now],
                                FbReader, at)
                  ELSE st2)
    /\ UNCHANGED <<ticks, evars, bvars, xvars, yvars>>

\* The sink node of the feedback edge writes x through the edge.
SEvalSink ==
    /\ SIsNext(FbSink)
    /\ SStore(feedback_write(SPopped(FbSink), fb.x[1]))
    /\ UNCHANGED <<ticks, evars, bvars, xvars, yvars>>

\* The reader reads f.
SEvalReader ==
    /\ SIsNext(FbReader)
    /\ SStore([SPopped(FbReader) EXCEPT !.fb.yread = TRUE, !.fb.ysaw = fb.f])
    /\ UNCHANGED <<ticks, evars, bvars, xvars, yvars>>

NextSched ==
    \/ STick
    \/ SEvalSource
    \/ \E req \in BOOLEAN : \E at \in 0..SchedMaxTime : SEvalCompute(req, at)
    \/ SEvalSink
    \/ SEvalReader

---------------------------------------------------------------------------
\* SpecMap: a map node over a TSD
\*
\* An upstream node writes the input TSD (keys added and removed, any number
\* within a tick); the map node, subscribed to the TSD, is evaluated after it
\* at every tick at which the TSD was written.

MapMaxTime == 3
MapKeys == {"a", "b"}

\* TSD: the key set and the keys added and removed at the current tick,
\* relative to the key set at the start of the tick.
NewTsd == [keys |-> {}, added_keys |-> {}, removed_keys |-> {}]

\* Adding a key that was removed at this tick restores it: it is neither
\* added nor removed.
tsd_add(d, k) ==
    IF k \in d.removed_keys
    THEN [d EXCEPT !.keys = @ \cup {k}, !.removed_keys = @ \ {k}]
    ELSE [d EXCEPT !.keys = @ \cup {k}, !.added_keys = @ \cup {k}]

\* A removal that does not collapse with an addition of the same tick.
tsd_remove_no_collapse(d, k) ==
    [d EXCEPT !.keys = @ \ {k}, !.removed_keys = @ \cup {k}]

\* Removing a key that was added at this tick collapses with the addition.
tsd_remove(d, k) ==
    IF k \in d.added_keys
    THEN [d EXCEPT !.keys = @ \ {k}, !.added_keys = @ \ {k}]
    ELSE [d EXCEPT !.keys = @ \ {k}, !.removed_keys = @ \cup {k}]

\* The map node as built: no inner graph, an empty output TSD.  starts and
\* stops are the inner graphs started and stopped so far, <<key, time>>;
\* khist is the key set of the input at the end of every tick that is over;
\* ohist that of the output; churned the keys added and removed within one
\* tick, <<key, time>>.
NewMap ==
    [now |-> 1, ts |-> NewTsd, written |-> FALSE, evaluated |-> FALSE,
     graphs |-> {}, out_keys |-> {}, starts |-> {}, stops |-> {},
     khist |-> <<>>, ohist |-> <<>>, churned |-> {}]

\* The evaluation of the map node: on added_keys build and start a sub-graph
\* and publish its output under the key, on removed_keys stop and discard the
\* sub-graph and remove the key from the output.
map_eval(m) ==
    LET added == m.ts.added_keys
        removed == m.ts.removed_keys
    IN  [m EXCEPT !.graphs = (@ \cup added) \ removed,
                  !.out_keys = (@ \cup added) \ removed,
                  !.starts = @ \cup {<<k, m.now>> : k \in added},
                  !.stops = @ \cup {<<k, m.now>> : k \in removed},
                  !.evaluated = TRUE]

MNone == mp = NewMap

\* The upstream node adds key k to the TSD.
MAdd(k) ==
    /\ ~mp.evaluated
    /\ k \notin mp.ts.keys
    /\ mp' = [mp EXCEPT !.ts = tsd_add(@, k), !.written = TRUE]
    /\ UNCHANGED <<evars, bvars, svars, lc, pq, pub, ow, dec, yvars>>

\* The upstream node removes key k from the TSD.
MRemove(k) ==
    /\ ~mp.evaluated
    /\ k \in mp.ts.keys
    /\ mp' = [mp EXCEPT !.ts = tsd_remove(@, k), !.written = TRUE,
                        !.churned = IF k \in mp.ts.added_keys
                                    THEN @ \cup {<<k, mp.now>>} ELSE @]
    /\ UNCHANGED <<evars, bvars, svars, lc, pq, pub, ow, dec, yvars>>

\* The map node is evaluated at a tick at which its input was written.
MEval ==
    /\ mp.written /\ ~mp.evaluated
    /\ mp' = map_eval(mp)
    /\ UNCHANGED <<evars, bvars, svars, lc, pq, pub, ow, dec, yvars>>

\* The engine moves to the next tick; the per-tick key sets are cleared.
MAdvance ==
    /\ mp.now < MapMaxTime
    /\ mp.written => mp.evaluated
    /\ mp' = [mp EXCEPT !.now = @ + 1,
                        !.ts = [@ EXCEPT !.added_keys = {}, !.removed_keys = {}],
                        !.written = FALSE, !.evaluated = FALSE,
                        !.khist = Append(@, mp.ts.keys),
                        !.ohist = Append(@, mp.out_keys)]
    /\ UNCHANGED <<evars, bvars, svars, lc, pq, pub, ow, dec, yvars>>

NextMap ==
    \/ \E k \in MapKeys : MAdd(k)
    \/ \E k \in MapKeys : MRemove(k)
    \/ MEval
    \/ MAdvance

---------------------------------------------------------------------------
\* SpecLife: the lifecycle of the nodes of a graph
\*
\* The engine starts the nodes, runs ticks and stops the nodes; a stop can
\* begin between two ticks or within one (an evaluation failed).  While the
\* engine does so, nodes ask the scheduler for events for any node.

LifeMaxTime == 2
LifeNodeCount == 3
LifeNodes == 1..LifeNodeCount

\* The graph as built.  evals is the set of lifecycle states in which a node
\* was evaluated so far; discarded tells whether an event was discarded at
\* its request (for a node not started) and whether one was at a stop.
NewLife ==
    [phase |-> "built", state |-> [n \in LifeNodes |-> "NEW"], now |-> 0,
     future |-> {}, pending |-> {}, start_log |-> <<>>, stop_log |-> <<>>,
     evals |-> {}, discarded |-> [request |-> FALSE, stop |-> FALSE]]

IsStarted(l, n) == l.state[n] = "STARTED"

\* schedule(node, at): an event for a node that is not started, or is
\* stopped, is discarded; an event for a time not after engine.now joins
\* the current tick.
life_schedule(l, n, at) ==
    IF ~IsStarted(l, n) THEN [l EXCEPT !.discarded.request = TRUE]
    ELSE IF at <= l.now THEN [l EXCEPT !.pending = @ \cup {n}]
    ELSE [l EXCEPT !.future = @ \cup {Event(at, n)}]

\* start of node n
life_start(l, n) ==
    [l EXCEPT !.state[n] = "STARTED", !.start_log = Append(@, n),
              !.phase = IF n = LifeNodeCount THEN "running" ELSE "starting"]

\* A stop that leaves the events of the node where they are.
life_stop_keeps_events(l, n) ==
    [l EXCEPT !.state[n] = "STOPPED", !.stop_log = Append(@, n),
              !.phase = IF n = 1 THEN "stopped" ELSE "stopping"]

\* stop of node n: the events scheduled for it are discarded.
life_stop(l, n) ==
    [l EXCEPT !.state[n] = "STOPPED", !.stop_log = Append(@, n),
              !.phase = IF n = 1 THEN "stopped" ELSE "stopping",
              !.pending = @ \ {n},
              !.future = {e \in @ : e.node # n},
              !.discarded.stop = @ \/ n \in l.pending
                                   \/ \E e \in l.future : e.node = n]

\* The evaluator pops node n: it is evaluated if it is eligible (started).
life_eval(l, n) ==
    IF IsStarted(l, n)
    THEN [l EXCEPT !.pending = @ \ {n}, !.evals = @ \cup {l.state[n]}]
    ELSE [l EXCEPT !.pending = @ \ {n}]

LNone == lc = NewLife

\* Start: the engine walks the nodes in build order.
LStartNode(n) ==
    /\ lc.phase \in {"built", "starting"}
    /\ lc.state[n] = "NEW"
    /\ \A m \in LifeNodes : m < n => lc.state[m] # "NEW"
    /\ lc' = life_start(lc, n)
    /\ UNCHANGED <<evars, bvars, svars, mp, pq, pub, ow, dec, yvars>>

\* Some node's start, eval or stop asks for an event for node n at time at.
LSchedule(n, at) ==
    /\ lc.phase \in {"starting", "running", "stopping"}
    /\ at >= lc.now
    /\ lc' = life_schedule(lc, n, at)
    /\ UNCHANGED <<evars, bvars, svars, mp, pq, pub, ow, dec, yvars>>

\* The next tick: the engine time moves to the earliest event and the events
\* of that time are drained into pending.
LTick ==
    /\ lc.phase = "running"
    /\ lc.pending = {}
    /\ lc.future # {}
    /\ LET t == CHOOSE t \in {e.at : e \in lc.future} :
                    \A e \in lc.future : t <= e.at
       IN  lc' = [lc EXCEPT !.now = t,
                            !.pending = {e.node : e \in {x \in lc.future : x.at = t}},
                            !.future = {e \in @ : e.at # t}]
    /\ UNCHANGED <<evars, bvars, svars, mp, pq, pub, ow, dec, yvars>>

\* The evaluator pops the pending node of the lowest rank.
LEval ==
    /\ lc.phase = "running"
    /\ lc.pending # {}
    /\ LET n == CHOOSE n \in lc.pending : \A m \in lc.pending : n <= m
       IN  lc' = life_eval(lc, n)
    /\ UNCHANGED <<evars, bvars, svars, mp, pq, pub, ow, dec, yvars>>

\* Stop: the engine walks the started nodes in reverse build order.
LStopNode(n) ==
    /\ lc.phase \in {"running", "stopping"}
    /\ IsStarted(lc, n)
    /\ \A m \in LifeNodes : m > n => ~IsStarted(lc, m)
    /\ lc' = life_stop(lc, n)
    /\ UNCHANGED <<evars, bvars, svars, mp, pq, pub, ow, dec, yvars>>

NextLife ==
    \/ \E n \in LifeNodes : LStartNode(n)
    \/ \E n \in LifeNodes, at \in 0..LifeMaxTime : LSchedule(n, at)
    \/ LTick
    \/ LEval
    \/ \E n \in LifeNodes : LStopNode(n)

---------------------------------------------------------------------------
\* SpecPush: push-source nodes
\*
\* A foreign thread calls sender(value) of a push-source node at any moment;
\* the call puts the value into the bounded FIFO of the node.  The evaluator
\* runs ticks; at a tick the node is evaluated at most once and takes one
\* value from its queue.  The values sent by one thread are numbered 1, 2, ...

PushCapacity == 2
PushMaxSent == 3
PushMaxTime == 3
PushSources == {"p", "q"}

NewPush ==
    [now |-> 1,
     sent |-> [s \in PushSources |-> 0],
     queue |-> [s \in PushSources |-> <<>>],
     delivered |-> [s \in PushSources |-> <<>>],
     dropped |-> [s \in PushSources |-> {}]]

\* sender(value): the value joins the tail of the queue; when the queue is
\* full the new value is dropped (drop-newest).
push_send(q, s) ==
    LET v == q.sent[s] + 1
    IN  IF Len(q.queue[s]) < PushCapacity
        THEN [q EXCEPT !.sent[s] = v, !.queue[s] = Append(@, v)]
        ELSE [q EXCEPT !.sent[s] = v, !.dropped[s] = @ \cup {v}]

\* The node of source s was already evaluated at this tick.
push_delivered_now(q, s) ==
    \E i \in 1..Len(q.delivered[s]) : q.delivered[s][i].t = q.now

\* A delivery that takes the value sent last.
push_deliver_newest(q, s) ==
    [q EXCEPT !.queue[s] = SubSeq(@, 1, Len(@) - 1),
              !.delivered[s] = Append(@, [v |-> q.queue[s][Len(q.queue[s])],
                                          t |-> q.now])]

\* The evaluation of the push-source node: the head of the queue becomes the
\* value of the node's output at this tick.
push_deliver(q, s) ==
    [q EXCEPT !.queue[s] = Tail(@),
              !.delivered[s] = Append(@, [v |-> Head(q.queue[s]), t |-> q.now])]

PNone == pq = NewPush

\* on_update of the table calls sender(data) on the foreign thread.
PSend(s) ==
    /\ pq.sent[s] < PushMaxSent
    /\ pq' = push_send(pq, s)
    /\ UNCHANGED <<evars, bvars, svars, mp, lc, pub, ow, dec, yvars>>

\* The evaluator evaluates the node of source s.
PDeliver(s) ==
    /\ pq.queue[s] # <<>>
    /\ ~push_delivered_now(pq, s)
    /\ pq' = push_deliver(pq, s)
    /\ UNCHANGED <<evars, bvars, svars, mp, lc, pub, ow, dec, yvars>>

\* The evaluator moves to the next tick.
PTick ==
    /\ pq.now < PushMaxTime
    /\ pq' = [pq EXCEPT !.now = @ + 1]
    /\ UNCHANGED <<evars, bvars, svars, mp, lc, pub, ow, dec, yvars>>

NextPush ==
    \/ \E s \in PushSources : PSend(s)
    \/ \E s \in PushSources : PDeliver(s)
    \/ PTick

---------------------------------------------------------------------------
\* SpecPub: the TSD table-publishing node (_publish_table_from_tsd)
\*
\* The node is evaluated at a tick when its input TSD ticked (keys removed,
\* items modified) or when a wake-up it scheduled is due.  Rows are one per
\* key (state.multi_row is false).  The index of a row is made of the key and
\* of a column of the value: it is 2 * key + c for the value column c.  When
\* the index column is the key column alone (create_index is None) the index
\* is the key, which is the case c = 0 of key 0: the index 0.  The tables are hosted by the
\* server (host_server_tables).  Time is counted in ticks; the flush delay of
\* 250 ms is FlushDelay ticks.

PubMaxTime == 5
FlushDelay == 2
PubKeys == {0, 1}
PubCols == {0, 1}

\* The truth value of an index in an `if`.
Truthy(v) == v # 0

\* data[index] of the row made from the key k and the value column c.
RowIndex(k, c) == k + k + c

\* A row of the table: the key it was made from and its index.
PubRow(k, c) == [key |-> k, index |-> RowIndex(k, c)]

\* The node after start: state.data, state.removed, state.key_tracker (the
\* index kept for a key is <<i>>, no entry is <<>>); wake are the times of
\* the node's scheduled events and table the indices of the rows of the
\* published table.  keys is the key set of the input TSD and cur the index
\* each of its keys has now; evaluated, woken and flushed tell whether the
\* node was evaluated at the current tick, whether a wake-up of its own was
\* due then, and whether it called update_table; published are the rows it
\* passed to update_table and arrived the rows of the items modified since
\* the flush before.
NewPub ==
    [now |-> 0, keys |-> {}, cur |-> [k \in PubKeys |-> <<>>],
     data |-> <<>>, removed |-> {}, key_tracker |-> [k \in PubKeys |-> <<>>],
     wake |-> {}, table |-> {}, evaluated |-> FALSE, woken |-> FALSE,
     flushed |-> FALSE, published |-> <<>>, arrived |-> <<>>]

\* sched.is_scheduled: an event of the node lies in the future.
is_scheduled(st) == \E w \in st.wake : w > st.now

\* sched.is_scheduled_now: the node was woken at this tick by its own event.
is_scheduled_now(st) == st.now \in st.wake

\* The loop over ts.removed_keys(): `if v := key_tracker.pop(k, None)`.
pub_removed_keys(st, R) ==
    [st EXCEPT !.removed =
                   @ \cup {st.key_tracker[k][1] :
                              k \in {j \in R : st.key_tracker[j] # <<>>
                                                /\ Truthy(st.key_tracker[j][1])}},
               !.key_tracker = [k \in PubKeys |-> IF k \in R THEN <<>> ELSE @[k]]]

\* The loop over ts.modified_items(): M are the rows of the modified items in
\* the order of the iteration.
RECURSIVE pub_modified_items(_, _)
pub_modified_items(st, M) ==
    IF M = <<>> THEN st
    ELSE LET data == Head(M)
             old_i == st.key_tracker[data.key]
             s1 == IF old_i # <<>> /\ old_i[1] # data.index
                   THEN [st EXCEPT !.removed = @ \cup {old_i[1]}]
                   ELSE st
         IN  pub_modified_items(
                 [s1 EXCEPT !.removed = @ \ {data.index},
                            !.key_tracker[data.key] = <<data.index>>,
                            !.data = Append(@, data)],
                 Tail(M))

\* PerspectiveTablesManager.update_table on a table hosted by the server:
\* the rows of data are written in their order (a row replaces the row of the
\* same index), then the rows of the indices in removals are removed.
update_table(table, data, removals) ==
    LET updated == IF data # <<>>
                   THEN table \cup {data[k].index : k \in 1..Len(data)}
                   ELSE table
    IN  IF removals # {} THEN updated \ removals ELSE updated

\* The flush of _publish_table_from_tsd that keeps state.data.
pub_flush_keeps_data(st) ==
    [st EXCEPT !.table = update_table(@, st.data, st.removed),
               !.published = st.data, !.flushed = TRUE,
               !.removed = {}]

\* The flush of _publish_table_from_tsd (lines 102-108).
pub_flush(st) ==
    [st EXCEPT !.table = update_table(@, st.data, st.removed),
               !.published = st.data, !.flushed = TRUE,
               !.data = <<>>, !.removed = {}]

\* _publish_table_from_tsd with the keys R removed and the items of the rows
\* M modified at this tick.  The local `data` is the row of the last modified
\* item: it is set exactly when M is not empty.
publish_table_from_tsd(st, R, M) ==
    LET s1 == pub_modified_items(pub_removed_keys(st, R), M)
        data == M
        s2 == IF ~is_scheduled(s1) /\ data # <<>>
              THEN [s1 EXCEPT !.wake = @ \cup {s1.now + FlushDelay}]
              ELSE s1
    IN  IF is_scheduled_now(s2) THEN pub_flush(s2) ELSE s2

PubNone == pub = NewPub

\* The next tick, at which the input TSD does not tick and no wake-up is due:
\* the node is not evaluated.
PubIdleTick ==
    /\ pub.now < PubMaxTime
    /\ (pub.now + 1) \notin pub.wake
    /\ pub' = [pub EXCEPT !.now = @ + 1, !.evaluated = FALSE, !.woken = FALSE,
                          !.flushed = FALSE, !.published = <<>>,
                          !.arrived = IF pub.flushed THEN <<>> ELSE @,
                          !.wake = {w \in @ : w > pub.now}]
    /\ UNCHANGED <<evars, bvars, svars, mp, lc, pq, ow, dec, yvars>>

\* The items modified at a tick, in the order of their iteration: rows of
\* different keys.
PubModified ==
    {<<>>} \cup {<<PubRow(k, c)>> : k \in PubKeys, c \in PubCols}
           \cup {m \in {<<PubRow(k, c), PubRow(j, d)>> :
                              k \in PubKeys, j \in PubKeys, c \in PubCols, d \in PubCols} :
                       m[1].key # m[2].key}

RowKeys(M) == {M[n].key : n \in 1..Len(M)}

\* The next tick, at which the keys R are removed from the input TSD and the
\* items of the rows M are modified (R and M both empty: the node is woken by
\* its own event only).
PubEvalTick(R, M) ==
    /\ pub.now < PubMaxTime
    /\ R \subseteq pub.keys
    /\ R \cap RowKeys(M) = {}
    /\ R \cup RowKeys(M) # {} \/ (pub.now + 1) \in pub.wake
    /\ pub' = publish_table_from_tsd(
                  [pub EXCEPT !.now = @ + 1,
                              !.keys = (@ \ R) \cup RowKeys(M),
                              !.cur = [k \in PubKeys |->
                                          IF k \in R THEN <<>>
                                          ELSE IF \E n \in 1..Len(M) : M[n].key = k
                                          THEN <<(CHOOSE r \in {M[n] : n \in 1..Len(M)} :
                                                      r.key = k).index>>
                                          ELSE @[k]],
                              !.evaluated = TRUE,
                              !.woken = (pub.now + 1) \in pub.wake,
                              !.flushed = FALSE, !.published = <<>>,
                              !.arrived = (IF pub.flushed THEN <<>> ELSE @) \o M,
                              !.wake = {w \in @ : w > pub.now}],
                  R, M)
    /\ UNCHANGED <<evars, bvars, svars, mp, lc, pq, ow, dec, yvars>>

NextPub ==
    \/ PubIdleTick
    \/ \E R \in SUBSET PubKeys, M \in PubModified : PubEvalTick(R, M)

---------------------------------------------------------------------------
\* SpecWire: an operator and its overloads
\*
\* An overload is known by its position in the list of overloads, its rank
\* and the argument types its signature resolves for; a call has one
\* argument, of one of ArgTypes.

MaxOverloads == 2
MaxRank == 2
OperatorRank == 1000000
ArgTypes == {"int", "str"}

\* _calc_rank: the rank of an operator definition, and that of an
\* implementation, which is the sum of the ranks of its inputs.
calc_rank(node_type, input_rank) ==
    IF node_type = "OPERATOR" THEN OperatorRank ELSE input_rank

\* An entry of OverloadedWiringNodeHelper.overloads
Overload(name, node_type, input_rank, accepts) ==
    [name |-> name, rank |-> calc_rank(node_type, input_rank), accepts |-> accepts]

\* c.resolve_signature(*args) returns normally; otherwise it raises a
\* WiringError.
resolves(c, arg) == arg \in c.accepts

\* sorted(candidates, key=rank): a stable sort.
RECURSIVE sorted(_)
sorted(s) ==
    IF s = <<>> THEN <<>>
    ELSE LET init == sorted(SubSeq(s, 1, Len(s) - 1))
             x == s[Len(s)]
         IN  SelectSeq(init, LAMBDA y : y.rank <= x.rank) \o <<x>>
                \o SelectSeq(init, LAMBDA y : y.rank > x.rank)

\* What a call returns or raises.
Raise(e) == [raised |-> e, out |-> 0]
Returns(x) == [raised |-> "", out |-> x]

\* get_best_overload without the test for a tie.
get_best_overload_no_tie_test(overloads, arg) ==
    LET candidates == SelectSeq(overloads, LAMBDA c : resolves(c, arg))
        best_candidates == sorted(candidates)
    IN  IF candidates = <<>> THEN Raise("WiringError")
        ELSE Returns(best_candidates[1].name)

\* OverloadedWiringNodeHelper.get_best_overload
get_best_overload(overloads, arg) ==
    LET candidates == SelectSeq(overloads, LAMBDA c : resolves(c, arg))
        best_candidates == sorted(candidates)
    IN  IF candidates = <<>> THEN Raise("WiringError")
        ELSE IF Len(best_candidates) > 1
                /\ best_candidates[1].rank = best_candidates[2].rank
             THEN Raise("WiringError")
        ELSE Returns(best_candidates[1].name)

\* OperatorWiringNodeClass.__call__ (with _check_overloads): the overload
\* that is wired; the operator itself is no implementation.
operator_call(overloads, arg) ==
    LET best_overload == get_best_overload(overloads, arg)
    IN  IF best_overload.raised # "" THEN best_overload
        ELSE IF best_overload.out = overloads[1].name
             THEN Raise("NotImplementedError")
        ELSE best_overload

\* No operator is defined.
NewWire ==
    [overloads |-> <<>>, arg |-> "", best |-> Raise(""), called |-> Raise("")]

WNone == ow = NewWire

\* OperatorWiringNodeClass.__init__: the operator is its first overload.
WOperator(accepts) ==
    /\ ow.overloads = <<>>
    /\ ow' = [ow EXCEPT !.overloads = <<Overload(1, "OPERATOR", 0, accepts)>>]
    /\ UNCHANGED <<evars, bvars, svars, mp, lc, pq, pub, dec, yvars>>

\* overload(impl): an implementation is registered.
WOverload(rank, accepts) ==
    /\ ow.overloads # <<>>
    /\ Len(ow.overloads) < 1 + MaxOverloads
    /\ ow' = [NewWire EXCEPT !.overloads =
                  Append(ow.overloads,
                         Overload(Len(ow.overloads) + 1, "COMPUTE_NODE", rank, accepts))]
    /\ UNCHANGED <<evars, bvars, svars, mp, lc, pq, pub, dec, yvars>>

\* The operator is wired with an argument of type arg.
WCall(arg) ==
    /\ ow.overloads # <<>>
    /\ ow' = [ow EXCEPT !.arg = arg,
                        !.best = get_best_overload(ow.overloads, arg),
                        !.called = operator_call(ow.overloads, arg)]
    /\ UNCHANGED <<evars, bvars, svars, mp, lc, pq, pub, dec, yvars>>

NextWire ==
    \/ \E accepts \in SUBSET ArgTypes : WOperator(accepts)
    \/ \E rank \in 1..MaxRank, accepts \in SUBSET ArgTypes : WOverload(rank, accepts)
    \/ \E arg \in ArgTypes : WCall(arg)

---------------------------------------------------------------------------
\* SpecDec: the node decorators of hg/_decorators.py
\*
\* A function is known by its name.  A valid or ticked constraint is given
\* or not; when given it names inputs.

DecInputs == {"lhs", "rhs"}
DecFns == {"f", "g"}
CppImpls == {None, "cpp_f"}
NoConstraint == [given |-> FALSE, names |-> {}]
Constraints == {NoConstraint} \cup [given : {TRUE}, names : (SUBSET DecInputs) \ {{}}]

\* extract_signature(signature_fn, node_type): the signature is made from the
\* function and the node type; it declares no valid or ticked constraint of
\* its own.
extract_signature(signature_fn, node_type) ==
    [name |-> signature_fn, node_type |-> node_type,
     ticked |-> NoConstraint, valid |-> NoConstraint]

\* node_class(signature, fn)
WiringNode(node_class, signature, fn) ==
    [node_class |-> node_class, signature |-> signature, fn |-> fn]

\* _create_node
create_node(signature_fn, impl_fn, node_type, node_class, ticked, valid_) ==
    WiringNode(node_class, extract_signature(signature_fn, node_type),
               IF impl_fn = None THEN signature_fn ELSE impl_fn)

\* _node_decorator, applied to the function signature_fn directly or, when
\* the decorator was given arguments, through the partial it returned.
node_decorator(node_type, signature_fn, cpp_impl, ticked, valid_, node_class) ==
    LET class0 == IF node_class = None THEN "PythonWiringNodeClass" ELSE node_class
        class1 == IF cpp_impl # None THEN "CppWiringNodeClass" ELSE class0
        class2 == IF node_type = "GRPAH" THEN "GraphWiringNodeClass" ELSE class1
    IN  create_node(signature_fn, cpp_impl, node_type, class2, ticked, valid_)

compute_node(fn, cpp_impl, ticked, valid_) ==
    node_decorator("COMPUTE_NODE", fn, cpp_impl, ticked, valid_, None)

sink_node(fn, cpp_impl, ticked, valid_) ==
    node_decorator("SINK_NODE", fn, cpp_impl, ticked, valid_, None)

graph(fn) ==
    node_decorator("GRPAH", fn, None, NoConstraint, NoConstraint, None)

generator(fn) ==
    node_decorator("PULL_SOURCE_NODE", fn, None, NoConstraint, NoConstraint,
                   "PythonGeneratorWiringNodeClass")

\* Nothing was decorated.
NewDec ==
    [decorator |-> "", fn |-> "", cpp_impl |-> None, ticked |-> NoConstraint,
     valid |-> NoConstraint,
     node |-> WiringNode("", extract_signature("", ""), "")]

DNone == dec = NewDec

\* What was decorated, and how.
Decorated(decorator, fn, cpp_impl, ticked, valid_, node) ==
    [decorator |-> decorator, fn |-> fn, cpp_impl |-> cpp_impl,
     ticked |-> ticked, valid |-> valid_, node |-> node]

DComputeNode(fn, cpp_impl, ticked, valid_) ==
    /\ dec' = Decorated("compute_node", fn, cpp_impl, ticked, valid_,
                        compute_node(fn, cpp_impl, ticked, valid_))
    /\ UNCHANGED <<evars, bvars, svars, mp, lc, pq, pub, ow, yvars>>

DSinkNode(fn, cpp_impl, ticked, valid_) ==
    /\ dec' = Decorated("sink_node", fn, cpp_impl, ticked, valid_,
                        sink_node(fn, cpp_impl, ticked, valid_))
    /\ UNCHANGED <<evars, bvars, svars, mp, lc, pq, pub, ow, yvars>>

DGraph(fn) ==
    /\ dec' = Decorated("graph", fn, None, NoConstraint, NoConstraint, graph(fn))
    /\ UNCHANGED <<evars, bvars, svars, mp, lc, pq, pub, ow, yvars>>

DGenerator(fn) ==
    /\ dec' = Decorated("generator", fn, None, NoConstraint, NoConstraint,
                        generator(fn))
    /\ UNCHANGED <<evars, bvars, svars, mp, lc, pq, pub, ow, yvars>>

NextDec ==
    \/ \E fn \in DecFns, cpp_impl \in CppImpls, ticked \in Constraints,
          valid_ \in Constraints : DComputeNode(fn, cpp_impl, ticked, valid_)
    \/ \E fn \in DecFns, cpp_impl \in CppImpls, ticked \in Constraints,
          valid_ \in Constraints : DSinkNode(fn, cpp_impl, ticked, valid_)
    \/ \E fn \in DecFns : DGraph(fn)
    \/ \E fn \in DecFns : DGenerator(fn)

---------------------------------------------------------------------------
\* SpecInsp and SpecReq: the inspector of hgraph/debug/_inspector_handler.py
\*
\* An InspectorItemId names a graph (node is none), a node of a graph
\* (value_type is none) or a value of a node.  The items at hand: the node 1
\* of the root graph with its inputs and the input x, the graph nested in
\* node 1, the node 2 of that graph and its output.  InspectorItemId, the
\* InspectorState and the observer are not part of the sources at hand.

\* node is a tuple: empty for none, else the index of the node.
NoNode == <<>>
NoType == "None"

GraphItem(g) ==
    [graph |-> g, node |-> NoNode, value_type |-> NoType, value_path |-> <<>>]
NodeItem(g, n) ==
    [graph |-> g, node |-> <<n>>, value_type |-> NoType, value_path |-> <<>>]
ValueItem(g, n, vt, path) ==
    [graph |-> g, node |-> <<n>>, value_type |-> vt, value_path |-> path]

Node1 == NodeItem(<<>>, 1)
Inputs1 == ValueItem(<<>>, 1, "INPUTS", <<>>)
Input1x == ValueItem(<<>>, 1, "INPUTS", <<"x">>)
Nested == GraphItem(<<1, 0>>)
Node2 == NodeItem(<<1, 0>>, 2)
Output2 == ValueItem(<<1, 0>>, 2, "OUTPUT", <<>>)
\* An id that names nothing on the graph.
Missing == NodeItem(<<>>, 9)

Items == {Node1, Inputs1, Input1x, Nested, Node2, Output2}

\* item_id.graph + (item_id.node,)
item_node_id(x) == x.graph \o x.node

NodeIds == {item_node_id(x) : x \in {y \in Items \cup {Missing} : y.node # NoNode}}
GraphIds == {x.graph : x \in {y \in Items : y.node = NoNode}}

IsPrefix(p, q) == Len(p) <= Len(q) /\ SubSeq(q, 1, Len(p)) = p

\* InspectorItemId.is_parent_of: y lies strictly below x.
is_parent_of(x, y) ==
    IF x.node = NoNode
    THEN x # y /\ IsPrefix(x.graph, y.graph)
    ELSE IF x.value_type = NoType
    THEN \/ (y.graph = x.graph /\ y.node = x.node /\ y.value_type # NoType)
         \/ (Len(y.graph) > Len(x.graph) + 1 /\ IsPrefix(item_node_id(x), y.graph))
    ELSE /\ y.graph = x.graph /\ y.node = x.node /\ y.value_type = x.value_type
         /\ x.value_path # y.value_path /\ IsPrefix(x.value_path, y.value_path)

\* A dict, as the set of its entries.
dict_has(d, k) == \E e \in d : e.key = k
dict_pop(d, k) == {e \in d : e.key # k}
dict_put(d, k, v) == dict_pop(d, k) \cup {[key |-> k, item |-> v]}

\* InspectorState after construction, with an observer that is subscribed
\* to nothing.  rows is what the last call appended to value_data, raised the
\* exception it ended with.
NewInspector ==
    [graph_subscriptions |-> {}, node_subscriptions |-> {},
     node_item_subscriptions |-> [n \in NodeIds |-> {}],
     observer_graphs |-> {}, observer_nodes |-> {},
     value_removals |-> {}, rows |-> {}, raised |-> ""]

\* The observer: subscribe_graph, subscribe_node, unsubscribe_graph and
\* unsubscribe_node keep a set of graph ids and a set of node ids; removing
\* an id that is not in the set is not an error.
observer_subscribe_graph(st, g) == [st EXCEPT !.observer_graphs = @ \cup {g}]
observer_subscribe_node(st, n) == [st EXCEPT !.observer_nodes = @ \cup {n}]
observer_unsubscribe_graph(st, g) == [st EXCEPT !.observer_graphs = @ \ {g}]
observer_unsubscribe_node(st, n) == [st EXCEPT !.observer_nodes = @ \ {n}]

insp_subscribe_item(st, x) ==
    IF x.node = NoNode
    THEN observer_subscribe_graph(
             [st EXCEPT !.graph_subscriptions = dict_put(@, x.graph, x)], x.graph)
    ELSE IF x.value_type = NoType
    THEN observer_subscribe_node(
             [st EXCEPT !.node_subscriptions = dict_put(@, item_node_id(x), x)],
             item_node_id(x))
    ELSE LET node_id == item_node_id(x)
             s1 == [st EXCEPT !.node_item_subscriptions[node_id] = @ \cup {x}]
         IN  IF ~dict_has(s1.node_subscriptions, node_id)
             THEN observer_subscribe_node(
                      [s1 EXCEPT !.node_subscriptions = dict_put(@, node_id, x)],
                      node_id)
             ELSE s1

\* unsubscribe_item.  For a node, line 358 adds the integer node to the tuple
\* graph, (sub_item_id.node) being no tuple: a TypeError.  For a value,
\* set.remove of an item that is not in the set is a KeyError.
insp_unsubscribe_item(st, x) ==
    IF x.node = NoNode
    THEN observer_unsubscribe_graph(
             [st EXCEPT !.graph_subscriptions = dict_pop(@, x.graph)], x.graph)
    ELSE IF x.value_type = NoType
    THEN LET node_id == item_node_id(x)
             s1 == [st EXCEPT !.node_subscriptions = dict_pop(@, node_id)]
         IN  IF s1.node_item_subscriptions[node_id] = {}
             THEN [s1 EXCEPT !.raised = "TypeError"]
             ELSE s1
    ELSE LET node_id == item_node_id(x)
             subscriptions == st.node_item_subscriptions[node_id]
         IN  IF subscriptions = {} THEN st
             ELSE IF x \notin subscriptions THEN [st EXCEPT !.raised = "KeyError"]
             ELSE LET s1 == [st EXCEPT !.node_item_subscriptions[node_id] = @ \ {x}]
                  IN  IF s1.node_item_subscriptions[node_id] = {}
                         /\ ~dict_has(s1.node_subscriptions, node_id)
                      THEN observer_unsubscribe_node(s1, node_id)
                      ELSE s1

is_item_subscribed(st, x) ==
    IF x.node = NoNode THEN dict_has(st.graph_subscriptions, x.graph)
    ELSE IF x.value_type = NoType
    THEN dict_has(st.node_subscriptions, item_node_id(x))
    ELSE x \in st.node_item_subscriptions[item_node_id(x)]

\* graph_object_from_id: a ValueError when the id names nothing on the graph.
graph_object_from_id(x) == x \in Items

\* A row of value_data: the id and the marker X.
Row(x, mark) == [id |-> x, X |-> mark]

inspector_show_item(st, x) ==
    IF is_item_subscribed(st, x) THEN st
    ELSE IF ~graph_object_from_id(x) THEN [st EXCEPT !.raised = "ValueError"]
    ELSE insp_subscribe_item([st EXCEPT !.rows = @ \cup {Row(x, "+")}], x)

\* The loops of inspector_collapse_item over the graphs, the nodes and the
\* value items to unsubscribe.
RECURSIVE collapse_graphs(_, _)
collapse_graphs(st, todo) ==
    IF todo = {} THEN st
    ELSE LET e == CHOOSE e \in todo : TRUE
         IN  collapse_graphs(
                 observer_unsubscribe_graph(
                     [st EXCEPT !.graph_subscriptions = dict_pop(@, e.key),
                                !.value_removals = @ \cup {e.item}], e.key),
                 todo \ {e})

RECURSIVE collapse_nodes(_, _)
collapse_nodes(st, todo) ==
    IF todo = {} THEN st
    ELSE LET e == CHOOSE e \in todo : TRUE
         IN  collapse_nodes(
                 observer_unsubscribe_node(
                     [st EXCEPT !.node_subscriptions = dict_pop(@, e.key),
                                !.value_removals =
                                    @ \cup {e.item}
                                      \cup st.node_item_subscriptions[e.key]],
                     e.key),
                 todo \ {e})

RECURSIVE collapse_items(_, _)
collapse_items(st, todo) ==
    IF todo = {} \/ st.raised # "" THEN st
    ELSE LET x == CHOOSE x \in todo : TRUE
             s1 == insp_unsubscribe_item(st, x)
         IN  collapse_items(
                 IF s1.raised # "" THEN s1
                 ELSE [s1 EXCEPT !.value_removals = @ \cup {x}],
                 todo \ {x})

inspector_collapse_item(st, x) ==
    LET graphs_to_unsubscribe ==
            {e \in st.graph_subscriptions : is_parent_of(x, e.item)}
        nodes_to_unsubscribe ==
            {e \in st.node_subscriptions : is_parent_of(x, e.item)}
        subscriptions ==
            IF x.node # NoNode THEN st.node_item_subscriptions[item_node_id(x)]
            ELSE {}
        items_to_unsubscribe ==
            IF x.node # NoNode /\ x.value_type = NoType THEN subscriptions \ {x}
            ELSE {y \in subscriptions : is_parent_of(x, y)}
        s1 == collapse_graphs(st, graphs_to_unsubscribe)
        s2 == collapse_nodes(s1, nodes_to_unsubscribe)
        s3 == collapse_items(s2, items_to_unsubscribe)
    IN  IF s3.raised # "" THEN s3
        ELSE [s3 EXCEPT !.rows = @ \cup {Row(x, "+")}]

\* item_iterator: the items right below an item (the nested graphs of a node
\* are listed with its values).
Children(x) ==
    IF x = Node1 THEN {Inputs1, Nested}
    ELSE IF x = Inputs1 THEN {Input1x}
    ELSE IF x = Nested THEN {Node2}
    ELSE IF x = Node2 THEN {Output2}
    ELSE {}

RECURSIVE expand_items(_, _)
expand_items(st, todo) ==
    IF todo = {} THEN st
    ELSE LET i == CHOOSE i \in todo : TRUE
         IN  expand_items(
                 insp_subscribe_item([st EXCEPT !.rows = @ \cup {Row(i, "+")}], i),
                 todo \ {i})

inspector_expand_item(st, x) ==
    IF ~graph_object_from_id(x) THEN [st EXCEPT !.raised = "ValueError"]
    ELSE LET s1 == expand_items(st, Children(x))
         IN  [s1 EXCEPT !.rows = @ \cup {Row(x, IF Children(x) # {} THEN "-" ELSE "o")}]

\* InspectorItemId.parent_item_ids: the items above an item, outermost first.
parent_item_ids(x) ==
    IF x = Output2 THEN <<Node1, Nested, Node2>>
    ELSE IF x = Node2 THEN <<Node1, Nested>>
    ELSE IF x = Nested THEN <<Node1>>
    ELSE IF x = Input1x THEN <<Node1, Inputs1>>
    ELSE IF x = Inputs1 THEN <<Node1>>
    ELSE <<>>

Command(c, x) == [command |-> c, item |-> x]

\* What a command returns: the state and the commands it spawns.
Done(st, new_commands) == [st |-> st, new_commands |-> new_commands]

\* inspector_follow_ref.  The input x of node 1 is bound to the output of node
\* 2; the inputs of node 1 refer to an output of a graph the observer does not
\* know; no other item is a reference or a bound input.
inspector_follow_ref(st, x) ==
    IF ~graph_object_from_id(x) \/ x \notin {Input1x, Inputs1}
    THEN Done([st EXCEPT !.raised = "ValueError"], <<>>)
    ELSE LET item_id == IF x = Input1x THEN Output2 ELSE Missing
             parents == parent_item_ids(item_id)
         IN  Done(st, [k \in 1..Len(parents) |-> Command("show", parents[k])]
                      \o <<Command("show", item_id)>>)

Commands == {"expand", "show", "collapse", "pin", "ref"}

\* The match statement of handle_inspector_request for a known command.
run_command(st, c) ==
    IF c.command = "expand" THEN Done(inspector_expand_item(st, c.item), <<>>)
    ELSE IF c.command = "show" THEN Done(inspector_show_item(st, c.item), <<>>)
    ELSE IF c.command = "collapse" THEN Done(inspector_collapse_item(st, c.item), <<>>)
    ELSE IF c.command = "ref" THEN inspector_follow_ref(st, c.item)
    ELSE Done(st, <<>>)

\* set_result(f, r): one more call of fut.set_result on the loop.
set_result(futures, f, code) == [futures EXCEPT ![f] = Append(@, code)]

\* The outcome of handle_inspector_request: the state, the futures, the
\* commands processed in order, and whether an exception left the function.
Handled(st, futures, log, raised) ==
    [st |-> st, futures |-> futures, log |-> log, raised |-> raised]

\* The loop of handle_inspector_request that goes on after an unknown
\* command.
RECURSIVE request_loop_no_return(_, _, _, _, _)
request_loop_no_return(st, futures, f, commands, log) ==
    IF commands = <<>> THEN Handled(st, set_result(futures, f, 200), log, FALSE)
    ELSE LET c == Head(commands)
         IN  IF c.command \notin Commands
             THEN request_loop_no_return(st, set_result(futures, f, 404), f,
                                         Tail(commands), Append(log, c))
             ELSE LET r == run_command(st, c)
                  IN  IF r.st.raised # ""
                      THEN Handled(r.st, set_result(futures, f, 500),
                                   Append(log, c), TRUE)
                      ELSE request_loop_no_return(r.st, futures, f,
                                           Tail(commands) \o r.new_commands,
                                           Append(log, c))

\* The loop of handle_inspector_request over the deque of commands.
RECURSIVE request_loop(_, _, _, _, _)
request_loop(st, futures, f, commands, log) ==
    IF commands = <<>> THEN Handled(st, set_result(futures, f, 200), log, FALSE)
    ELSE LET c == Head(commands)
         IN  IF c.command \notin Commands
             THEN Handled(st, set_result(futures, f, 404), Append(log, c), FALSE)
             ELSE LET r == run_command(st, c)
                  IN  IF r.st.raised # ""
                      THEN Handled(r.st, set_result(futures, f, 500),
                                   Append(log, c), TRUE)
                      ELSE request_loop(r.st, futures, f,
                                        Tail(commands) \o r.new_commands,
                                        Append(log, c))

\* handle_inspector_request(state, request, f)
handle_inspector_request(st, futures, request) ==
    request_loop(st, futures, request.f,
                 <<Command(request.command, request.item)>>, <<>>)

MaxRequests == 2
RequestCommands == Commands \cup {"bogus"}
RequestItems == Items \cup {Missing}

\* The inspector: its state s; the last operation called on it directly, the
\* item it was called with and the items that were subscribed before it; the
\* queue of requests, the calls of set_result per future, and for every
\* request taken from the queue the commands processed for it.
NewInsp ==
    [s |-> NewInspector, op |-> "", item |-> Missing, before |-> {},
     requests |-> <<>>, futures |-> [f \in 1..MaxRequests |-> <<>>],
     taken |-> <<>>, sent |-> 0]

INone == insp = NewInsp

\* A call starts with nothing raised and nothing appended to value_data.
InspCall(st) == [st EXCEPT !.raised = "", !.rows = {}]

Subscribed(st) == {y \in Items : is_item_subscribed(st, y)}

InspDo(op, x, s1) ==
    /\ insp' = [insp EXCEPT !.s = s1, !.op = op, !.item = x,
                            !.before = Subscribed(insp.s)]
    /\ UNCHANGED <<evars, bvars, svars, xvars, ptm>>

InspSubscribe(x) == InspDo("subscribe_item", x, insp_subscribe_item(InspCall(insp.s), x))

InspUnsubscribe(x) ==
    InspDo("unsubscribe_item", x, insp_unsubscribe_item(InspCall(insp.s), x))

InspShow(x) == InspDo("show", x, inspector_show_item(InspCall(insp.s), x))

InspExpand(x) == InspDo("expand", x, inspector_expand_item(InspCall(insp.s), x))

InspCollapse(x) == InspDo("collapse", x, inspector_collapse_item(InspCall(insp.s), x))

NextInsp ==
    \/ \E x \in Items : InspSubscribe(x)
    \/ \E x \in Items : InspUnsubscribe(x)
    \/ \E x \in Items : InspShow(x)
    \/ \E x \in Items : InspExpand(x)
    \/ \E x \in Items : InspCollapse(x)

\* handle_requests: requests are taken from the queue until it is empty or
\* the handling of one raises.
RECURSIVE handle_requests(_)
handle_requests(i) ==
    IF i.requests = <<>> THEN i
    ELSE LET request == Head(i.requests)
             h == handle_inspector_request(InspCall(i.s), i.futures, request)
             i1 == [i EXCEPT !.s = h.st, !.futures = h.futures,
                             !.requests = Tail(@),
                             !.taken = Append(@, [request |-> request, log |-> h.log,
                                                   raised |-> h.raised])]
         IN  IF h.raised THEN i1 ELSE handle_requests(i1)

\* The web handler queues a request with a fresh future.
ReqEnqueue(c, x) ==
    /\ insp.sent < MaxRequests
    /\ insp' = [insp EXCEPT !.sent = @ + 1,
                            !.requests = Append(@, [f |-> insp.sent + 1,
                                                    command |-> c, item |-> x])]
    /\ UNCHANGED <<evars, bvars, svars, xvars, ptm>>

\* The inspector node evaluates.
ReqHandle ==
    /\ insp.requests # <<>>
    /\ insp' = handle_requests(insp)
    /\ UNCHANGED <<evars, bvars, svars, xvars, ptm>>

NextReq ==
    \/ \E c \in RequestCommands, x \in RequestItems : ReqEnqueue(c, x)
    \/ ReqHandle

---------------------------------------------------------------------------
\* SpecMgr: PerspectiveTablesManager of
\* hgraph/adaptors/perspective/_perspective.py: tables are added, callers
\* subscribe to the updates of a table, and the manager is started, in any
\* order.

MgrNames == {"t", "u"}
\* name + "_removes"
RemovesName(name) == IF name = "t" THEN "t_removes" ELSE "u_removes"
MgrAllNames == MgrNames \cup {RemovesName(n) : n \in MgrNames}

\* A perspective Table: which one it is, and whether get_index() names an
\* index column.
TableObjs == {[id |-> 1, index |-> TRUE], [id |-> 2, index |-> FALSE]}
\* Table({"i": ...}): the table of the removed keys of a client table.
RemovesTable == [id |-> 0, index |-> FALSE]
NoTable == [id |-> -1, index |-> FALSE]

NoEntry == [present |-> FALSE, table |-> NoTable, editable |-> FALSE]
\* A PerspectiveTableUpdatesHandler: its queue, the table it is attached to
\* and (as_editable) whether that table had been added as editable.
NoUpdater == [present |-> FALSE, queue |-> "", table |-> NoTable, as_editable |-> FALSE]

\* PerspectiveTablesManager.__init__; built is false until it ran.  hosted
\* are the host_table calls made, raised the exception of the last call.
Manager(built, host_server_tables) ==
    [built |-> built, host_server_tables |-> host_server_tables, started |-> FALSE,
     tables |-> [n \in MgrAllNames |-> NoEntry],
     updaters |-> [n \in MgrAllNames |-> NoUpdater],
     hosted |-> {}, raised |-> "",
     op |-> "", name |-> "", non_editable |-> FALSE,
     before |-> [n \in MgrAllNames |-> NoUpdater]]

NewManager == Manager(FALSE, TRUE)

MgrNone == ptm = NewManager

\* PerspectiveTableUpdatesHandler.table = the table of the name.
updater_set_table(m, name) ==
    [m EXCEPT !.updaters[name].table = m.tables[name].table,
              !.updaters[name].as_editable = m.tables[name].editable]

manager_for_table(m, name) ==
    IF ~m.tables[name].editable THEN "manager" ELSE "editable_manager"

start_table(m, name) ==
    LET m1 == [m EXCEPT !.hosted = @ \cup {[manager |-> manager_for_table(m, name),
                                            name |-> name]}]
    IN  IF m1.updaters[name].present THEN updater_set_table(m1, name) ELSE m1

RECURSIVE add_table(_, _, _, _)
add_table(m, name, table, editable) ==
    LET m1 == [m EXCEPT !.tables[name] =
                   [present |-> TRUE, table |-> table, editable |-> editable]]
        m2 == IF m1.started THEN start_table(m1, name) ELSE m1
    IN  IF table.index /\ ~m2.host_server_tables
        THEN add_table(m2, RemovesName(name), RemovesTable, FALSE)
        ELSE m2

subscribe_table_updates(m, name, cb) ==
    LET table == m.tables[name]
    IN  IF table.present /\ ~table.editable
        THEN [m EXCEPT !.raised = "ValueError"]
        ELSE LET m1 == [m EXCEPT !.updaters[name].present = TRUE,
                                 !.updaters[name].queue = cb]
             IN  IF m1.started /\ table.present THEN updater_set_table(m1, name)
                 ELSE m1

\* The loops of _start_manager and _start_editable_manager over the tables.
RECURSIVE start_tables(_, _)
start_tables(m, todo) ==
    IF todo = {} THEN m
    ELSE LET name == CHOOSE n \in todo : TRUE
         IN  start_tables(start_table(m, name), todo \ {name})

start_manager(m) ==
    start_tables(m, {n \in MgrAllNames : m.tables[n].present /\ m.tables[n].editable = FALSE})

start_editable_manager(m) ==
    start_tables(m, {n \in MgrAllNames : m.tables[n].present /\ m.tables[n].editable = TRUE})

mgr_start(m) == [start_editable_manager(start_manager(m)) EXCEPT !.started = TRUE]

\* A call on the manager: what was called, on which name, whether the name
\* was a non-editable table, and the updaters before the call.
MgrCall(op, name) ==
    [ptm EXCEPT !.raised = "", !.op = op, !.name = name,
                !.non_editable = IF name \in MgrAllNames
                                 THEN ptm.tables[name].present /\ ~ptm.tables[name].editable
                                 ELSE FALSE,
                !.before = ptm.updaters]

MgrConstruct(host_server_tables) ==
    /\ ~ptm.built
    /\ ptm' = Manager(TRUE, host_server_tables)
    /\ UNCHANGED <<evars, bvars, svars, xvars, insp>>

MgrAddTable(name, table, editable) ==
    /\ ptm.built
    /\ ptm' = add_table(MgrCall("add_table", name), name, table, editable)
    /\ UNCHANGED <<evars, bvars, svars, xvars, insp>>

MgrSubscribe(name, cb) ==
    /\ ptm.built
    /\ ptm' = subscribe_table_updates(MgrCall("subscribe_table_updates", name), name, cb)
    /\ UNCHANGED <<evars, bvars, svars, xvars, insp>>

MgrStart ==
    /\ ptm.built /\ ~ptm.started
    /\ ptm' = mgr_start(MgrCall("start", ""))
    /\ UNCHANGED <<evars, bvars, svars, xvars, insp>>

NextMgr ==
    \/ \E h \in BOOLEAN : MgrConstruct(h)
    \/ \E name \in MgrNames, table \in TableObjs, editable \in BOOLEAN :
          MgrAddTable(name, table, editable)
    \/ \E name \in MgrNames : MgrSubscribe(name, "cb")
    \/ MgrStart

YNone == INone /\ MgrNone

---------------------------------------------------------------------------
\* None of the components above is part of the graph.
XNone == MNone /\ LNone /\ PNone /\ PubNone /\ WNone /\ DNone /\ YNone

---------------------------------------------------------------------------
\* The specifications

Init == EInit /\ BNone /\ SNone /\ XNone

Next ==
    \/ \E i \in Inputs : MakeActive(i)
    \/ \E i \in Inputs : MakePassive(i)
    \/ \E i \in Inputs, v \in Outputs \cup {RefOut} : BindOutput(i, v)
    \/ \E n \in Nodes : StartNode(n)
    \/ \E o \in Outputs : Commit(o)
    \/ \E t \in Outputs : RefSwitch(t)
    \/ AdvanceTime

Spec == Init /\ [][Next]_vars

InitEval == EvalInit /\ BNone /\ SNone /\ XNone

NextEval ==
    \/ \E S \in SUBSET Nodes : StartAll(S)
    \/ \E S \in SUBSET Nodes : Tick(S)
    \/ \E n \in Sources, r \in {<<>>} \cup {<<v>> : v \in Values} : EvalSource(n, r)
    \/ BinderIdle
    \/ \E t \in Outputs : BinderSwitch(t)
    \/ \E i \in Inputs, v \in Outputs : BinderBind(i, v)
    \/ ConsumerIdle
    \/ \E i \in Inputs : ConsumerMakeActive(i)
    \/ \E i \in Inputs : ConsumerMakePassive(i)

SpecEval == InitEval /\ [][NextEval]_vars

InitBuff == EInit /\ BInit /\ SNone /\ XNone

SpecBuff == InitBuff /\ [][NextBuff]_vars

InitSched == EInit /\ BNone /\ SInit /\ XNone

SpecSched == InitSched /\ [][NextSched]_vars

SpecMap == Init /\ [][NextMap]_vars

SpecLife == Init /\ [][NextLife]_vars

SpecPush == Init /\ [][NextPush]_vars

SpecPub == Init /\ [][NextPub]_vars

SpecWire == Init /\ [][NextWire]_vars

SpecDec == Init /\ [][NextDec]_vars

SpecInsp == Init /\ [][NextInsp]_vars

SpecReq == Init /\ [][NextReq]_vars

SpecMgr == Init /\ [][NextMgr]_vars

---------------------------------------------------------------------------
\* Claims about the inputs (Spec)

\* Some input of node n other than i is active and bound to output o.
OtherActiveOn(i, o) ==
    \E j \in Inputs \ {i} : owning_node(j) = owning_node(i) /\ active[j] /\ output[j] = o

\* C1: after any sequence of make_active, make_passive and bind_output a node
\* is in the subscriber set of an output if and only if it holds at least one
\* active input bound to that output.
C1_SubscribedIffActiveInput ==
    \A o \in Outputs, n \in Nodes :
        n \in subscribers[o]
            <=> \E i \in Inputs : owning_node(i) = n /\ active[i] /\ output[i] = o

\* C4: make_active on an active input and make_passive on a passive input
\* change neither the active flags nor any subscriber set and make no call;
\* a real transition makes exactly one subscribe_node (un_subscribe_node)
\* call, on the bound output, and none when the input is unbound.
C4_ActivationIdempotent ==
    [][\A i \in Inputs :
        /\ (MakeActive(i) /\ active[i])
             => /\ active' = active /\ subscribers' = subscribers
                /\ calls'.nsub = 0 /\ calls'.nunsub = 0
        /\ (MakePassive(i) /\ ~active[i])
             => /\ active' = active /\ subscribers' = subscribers
                /\ calls'.nsub = 0 /\ calls'.nunsub = 0
        /\ (MakeActive(i) /\ ~active[i])
             => /\ active' = [active EXCEPT ![i] = TRUE]
                /\ calls'.nunsub = 0
                /\ calls'.nsub = (IF output[i] = None THEN 0 ELSE 1)
                /\ \A o \in Outputs :
                     subscribers'[o] = IF o = output[i]
                                       THEN subscribers[o] \cup {owning_node(i)}
                                       ELSE subscribers[o]
        /\ (MakePassive(i) /\ active[i])
             => /\ active' = [active EXCEPT ![i] = FALSE]
                /\ calls'.nsub = 0
                /\ calls'.nunsub = (IF output[i] = None THEN 0 ELSE 1)
                /\ \A o \in Outputs :
                     subscribers'[o] = IF o = output[i]
                                       THEN subscribers[o] \ {owning_node(i)}
                                       ELSE subscribers[o]
      ]_vars

\* A real make_active has just subscribed the owner of a bound input.
C4_Witness ==
    /\ calls = [nsub |-> 1, nunsub |-> 0, nnotify |-> 0]
    /\ \E i \in Inputs :
         active[i] /\ output[i] # None /\ owning_node(i) \in subscribers[output[i]]

\* C5: binding an active input to the output v leaves it active, bound to v
\* and its node subscribed to v, and its node is subscribed to no other output
\* on behalf of this input; binding a passive input changes no subscriber set
\* and leaves it passive.
C5_RebindTransfersSubscription ==
    [][\A i \in Inputs, v \in Outputs :
        BindOutput(i, v) =>
            /\ output'[i] = v
            /\ active'[i] = active[i]
            /\ active[i] =>
                 /\ owning_node(i) \in subscribers'[v]
                 /\ \A o \in Outputs \ {v} :
                      ~OtherActiveOn(i, o) => owning_node(i) \notin subscribers'[o]
            /\ ~active[i] => subscribers' = subscribers
      ]_vars

\* Input a, active, has just moved from another output to O2.
C5_Witness ==
    /\ calls.nsub = 1 /\ calls.nunsub = 1
    /\ active["a"] /\ output["a"] = "O2"
    /\ owning_node("a") \in subscribers["O2"]
    /\ owning_node("a") \notin subscribers["O1"]

\* C6: binding an active input of a started node to an output that is already
\* valid notifies the owning node at the current engine time; binding a
\* passive input (to an output or to the reference output) never notifies.
C6_BindNotifiesActiveOnly ==
    [][\A i \in Inputs, v \in Outputs \cup {RefOut} :
        BindOutput(i, v) =>
            /\ (v \in Outputs /\ started[owning_node(i)] /\ active[i] /\ valid[v])
                 => /\ owning_node(i) \in pending'
                    /\ calls'.nnotify = 1
                    /\ sample_time'[i] = now
            /\ ~active[i] => (calls'.nnotify = 0 /\ pending' = pending)
      ]_vars

\* An active input has just been bound to a valid output and its node woken.
C6_Witness ==
    /\ calls.nnotify = 1
    /\ \E i \in Inputs :
         /\ i \in sampled /\ active[i] /\ valid[output[i]]
         /\ written[output[i]] = <<>>
         /\ pending = {owning_node(i)}

\* C7: at every engine time T an input is modified if and only if its bound
\* output was committed at T or a direct sample was delivered to it at T.
C7_InputModifiedIff ==
    now # MIN_DT =>
        \A i \in Inputs :
            modified(i) <=> \/ (output[i] # None /\ written[output[i]] # <<>>)
                            \/ i \in sampled

\* One input is modified by a sample alone; the other has a sample of an
\* earlier tick and is not modified.
C7_Witness ==
    \E i, j \in Inputs :
        /\ i \in sampled /\ written[output[i]] = <<>> /\ modified(i)
        /\ sample_time[j] # MIN_DT /\ sample_time[j] < now /\ ~modified(j)

\* C8, as claimed: when the reference output changes its target to t, every
\* observing input ends bound to t (subscribed if active) and reads the value
\* of t, and if t is already valid the owning node is pending at the current
\* engine time.
C8_RefFollowAlwaysWakes ==
    [][\A t \in Outputs :
        RefSwitch(t) =>
            \A i \in observers :
                /\ output'[i] = t
                /\ active[i] => owning_node(i) \in subscribers'[t]
                /\ InputValue(i)' = value[t]
                /\ valid[t] => owning_node(i) \in pending'
      ]_vars

\* C8, amended: the owning node is woken if t is already valid and the input
\* is active; a passive observing input is re-bound and sampled, and does not
\* wake its node.
C8_RefFollow ==
    [][\A t \in Outputs :
        RefSwitch(t) =>
            \A i \in observers :
                /\ output'[i] = t
                /\ output'[i] # refValue
                /\ active'[i] = active[i]
                /\ active[i] =>
                     /\ owning_node(i) \in subscribers'[t]
                     /\ \A o \in Outputs \ {t} :
                          (o = output[i]
                             /\ ~\E j \in Inputs \ {i} : active'[j] /\ output'[j] = o)
                              => owning_node(i) \notin subscribers'[o]
                /\ InputValue(i)' = value[t]
                /\ valid[t] => (sample_time'[i] = now /\ modified(i)')
                /\ (valid[t] /\ active[i]) => owning_node(i) \in pending'
                /\ (\A j \in observers : ~active[j]) => pending' = pending
      ]_vars

\* The reference has moved from O1 (valued 7) to O2 (valued 9): the active
\* observer a is bound to O2, reads 9, and its node is pending.
C8_Witness ==
    /\ refValue = "O2"
    /\ "a" \in observers /\ active["a"] /\ output["a"] = "O2"
    /\ calls.nunsub = 1 /\ calls.nsub = 1
    /\ value["O1"] = <<7>> /\ InputValue("a") = <<9>>
    /\ "a" \in sampled
    /\ owning_node("a") \in pending

---------------------------------------------------------------------------
\* Claims about the evaluator (SpecEval)

\* C2: no node evaluates twice at one tick, a node evaluates only if it was
\* notified at the tick, and when the tick is over every node notified at it
\* (by a scheduled event, a subscription or a bind) has evaluated exactly once.
C2_AtMostOncePerTick ==
    \A n \in Nodes :
        /\ evalCount[n] <= 1
        /\ evalCount[n] = 1 => n \in notified
        /\ (pending = {} /\ n \in notified) => evalCount[n] = 1

\* The consumer was woken through both inputs (a commit of the output of b
\* and a bind-time sample of a) and has evaluated once.
C2_Witness ==
    /\ pending = {}
    /\ evalCount[Consumer] = 1
    /\ "a" \in sampled /\ seen["a"].act
    /\ seen["b"].act /\ seen["b"].out # None /\ written[seen["b"].out] # <<>>

\* C10: the node writing an output evaluates before the consumer reading it
\* through an active input, and the consumer reads the value written at this
\* tick.
C10_WriterBeforeReader ==
    \A i \in Inputs :
        (evalCount[Consumer] >= 1 /\ seen[i].act /\ seen[i].out # None) =>
            /\ written[seen[i].out] # <<>> => seen[i].val = written[seen[i].out]
            /\ \A p, q \in DOMAIN evalOrder :
                 (evalOrder[p] = OutputOwner(seen[i].out) /\ evalOrder[q] = Consumer)
                     => p < q

\* Source 1 and the consumer were both pending at a later tick; the consumer
\* read through its active input b the value source 1 wrote at this tick.
C10_Witness ==
    /\ now > MIN_DT + 1
    /\ evalOrder = <<1, Consumer>>
    /\ seen["b"].act /\ seen["b"].out = "O1"
    /\ written["O1"] # <<>> /\ seen["b"].val = written["O1"]

---------------------------------------------------------------------------
\* The timestamps an integer-sized buffer holds (slots still at MIN_TD hold
\* no sample).
IStamps == {k \in 1..ISize : ibuf.times[k] # MIN_TD}

\* C3: an output is written at most once per tick.  Once a sample has been
\* committed to a buffer output at tick T, can_apply_result is false for the
\* rest of T; it is true again when the engine has moved to the next tick;
\* and no buffer ever holds two samples stamped with the same engine time.
C3_BufferWrittenOncePerTick ==
    /\ ibuf.built =>
          /\ ibuf.committed => \A r \in Results : ~i_can_apply_result(ibuf, r)
          /\ blast.op = "advance" => \A r \in Results : i_can_apply_result(ibuf, r)
          /\ \A p \in IStamps : \A q \in IStamps :
                 p # q => ibuf.times[p] # ibuf.times[q]
    /\ tbuf.built =>
          /\ tbuf.committed => \A r \in Results : ~t_can_apply_result(tbuf, r)
          /\ blast.op = "advance" => \A r \in Results : t_can_apply_result(tbuf, r)
          /\ \A p \in 1..Len(tbuf.times) : \A q \in 1..Len(tbuf.times) :
                 p < q => tbuf.times[p] < tbuf.times[q]

\* A full integer-sized buffer that was committed to at this tick after
\* earlier ticks filled it.
C3_Witness ==
    /\ ibuf.built /\ ibuf.committed
    /\ Cardinality(IStamps) = ISize
    /\ bnow > ISize
    /\ \A r \in Results : ~i_can_apply_result(ibuf, r)

\* C9: a buffer output is modified at tick T exactly when a sample was
\* committed to it at T, its last_modified_time never exceeds the engine
\* time, and it is no longer modified once the engine has moved to the next
\* tick.
C9_BufferModifiedIffCommitted ==
    /\ ibuf.built =>
          /\ BuffModified(ibuf) <=> ibuf.committed
          /\ ibuf.last_modified_time <= bnow
          /\ blast.op = "advance" => ~BuffModified(ibuf)
    /\ tbuf.built =>
          /\ BuffModified(tbuf) <=> tbuf.committed
          /\ tbuf.last_modified_time <= bnow
          /\ blast.op = "advance" => ~BuffModified(tbuf)

\* The engine has moved on from a tick at which a sample was committed to
\* the integer-sized buffer.
C9_Witness ==
    /\ ibuf.built /\ blast.op = "advance"
    /\ ibuf.last_modified_time = bnow - 1
    /\ ~BuffModified(ibuf)
    /\ ibuf.valid

---------------------------------------------------------------------------
\* The last n samples of a history, oldest first, and their values and
\* timestamps.
LastN(h, n) == SubSeq(h, Len(h) - Min(n, Len(h)) + 1, Len(h))
ValuesOf(h) == [k \in 1..Len(h) |-> h[k].v]
TimesOf(h) == [k \in 1..Len(h) |-> h[k].t]

\* The samples an integer-sized buffer of capacity ISize holds after the
\* writes of its history.
IHeld == LastN(ibuf.hist, ISize)

\* C13: for an integer-sized buffer, value is none while fewer than min_size
\* samples are held, and is the contiguous view of the samples held whenever
\* at least min_size samples are held.
C13_IValueDefinedFromMinSize ==
    (ibuf.built /\ blast.op = "value") =>
        /\ blast.out.none <=> Len(IHeld) < ibuf.min_size
        /\ ~blast.out.none => blast.out.view = ValuesOf(IHeld)

\* C14: round trip of an integer-sized buffer.  After more than ISize writes,
\* value is the last ISize values in insertion order and value_times is their
\* timestamps in the same order, whichever of the two is read first.
C14_IRoundTrip ==
    (ibuf.built /\ Len(ibuf.hist) > ISize) =>
        /\ blast.op = "value" =>
              ~blast.out.none /\ blast.out.view = ValuesOf(IHeld)
        /\ blast.op = "value_times" =>
              ~blast.out.none /\ blast.out.view = TimesOf(IHeld)

\* C15: an integer-sized buffer that is written once per tick from its
\* construction on and never invalidated: value is none while fewer than
\* min_size samples were written, is exactly the samples written so far in
\* insertion order while their number is between min_size and ISize, and is
\* the last ISize of them afterwards (size 3, min_size 2, four writes: none,
\* then the first two, then the last three).
C15_IValueFollowsWrites ==
    (ibuf.built /\ blast.op = "value" /\ Len(ibuf.hist) = bnow) =>
        IF Len(ibuf.hist) < ibuf.min_size
        THEN blast.out.none
        ELSE ~blast.out.none /\ blast.out.view = ValuesOf(IHeld)

\* C16: apply_result(v) with a non-none v of the buffer's type stores exactly
\* one sample, stamped with the engine time, as the newest one.  In the
\* integer-sized buffer exactly one slot changes: an empty one while the
\* buffer is not full, the one with the oldest timestamp when it is full;
\* every other slot keeps its value and timestamp.  In the duration-sized
\* buffer the sample is appended and nothing else changes.
C16_ApplyAppendsOneSample ==
    [][/\ (ibuf.built /\ Len(ibuf'.hist) = Len(ibuf.hist) + 1) =>
            \E pos \in 1..ISize :
                /\ ibuf'.value[pos] = ibuf'.hist[Len(ibuf'.hist)].v
                /\ ibuf'.times[pos] = bnow
                /\ \A k \in 1..ISize \ {pos} :
                       /\ ibuf'.value[k] = ibuf.value[k]
                       /\ ibuf'.times[k] = ibuf.times[k]
                       /\ ibuf.times[k] < bnow
                /\ IF Cardinality(IStamps) = ISize
                   THEN \A k \in 1..ISize : ibuf.times[pos] <= ibuf.times[k]
                   ELSE ibuf.times[pos] = MIN_TD
       /\ (tbuf.built /\ Len(tbuf'.hist) = Len(tbuf.hist) + 1) =>
            /\ tbuf'.value = Append(tbuf.value, tbuf'.hist[Len(tbuf'.hist)].v)
            /\ tbuf'.times = Append(tbuf.times, bnow)
      ]_vars

\* A write to a full integer-sized buffer whose start has wrapped: it held
\* ISize samples and a further one was committed at this tick.
C16_Witness ==
    /\ ibuf.built /\ blast.op = "apply_result" /\ ibuf.committed
    /\ Len(ibuf.hist) > ISize + 1
    /\ Cardinality(IStamps) = ISize
    /\ \E k \in 1..ISize : ibuf.times[k] = bnow

\* C17: a none result is not committed.  apply_result(None) on a buffer output
\* leaves the samples, the timestamps, start and length, last_modified_time
\* and the modified flag as they were, and notifies no subscriber.
C17_NoneNotCommitted ==
    [][(blast'.op = "apply_result" /\ blast'.arg = <<>>) =>
          /\ ibuf.built =>
                /\ ibuf'.value = ibuf.value /\ ibuf'.times = ibuf.times
                /\ ibuf'.start = ibuf.start /\ ibuf'.length = ibuf.length
                /\ ibuf'.last_modified_time = ibuf.last_modified_time
                /\ ibuf'.valid = ibuf.valid
                /\ BuffModified(ibuf)' <=> BuffModified(ibuf)
                /\ ~ibuf'.notified
          /\ tbuf.built =>
                /\ tbuf'.value = tbuf.value /\ tbuf'.times = tbuf.times
                /\ tbuf'.last_modified_time = tbuf.last_modified_time
                /\ tbuf'.valid = tbuf.valid
                /\ BuffModified(tbuf)' <=> BuffModified(tbuf)
                /\ ~tbuf'.notified
      ]_vars

\* apply_result(None) was called on an integer-sized buffer that holds
\* samples of earlier ticks and was not written at this tick.
C17_Witness ==
    /\ ibuf.built /\ blast.op = "apply_result" /\ blast.arg = <<>>
    /\ IStamps # {}
    /\ ~BuffModified(ibuf)
    /\ ibuf.valid

\* What a read of a buffer may return when the buffer holds the samples h:
\* value returns their values, value_times their timestamps (the slots of an
\* integer-sized buffer that hold no sample show MIN_TD), delta_value the
\* sample of this tick.
ReadsOnly(h, cap) ==
    /\ (blast.op = "value" /\ ~blast.out.none) =>
           blast.out.view = ValuesOf(LastN(h, cap))
    /\ blast.op = "value_times" =>
           \A k \in 1..Len(blast.out.view) :
               \/ blast.out.view[k] = MIN_TD
               \/ \E j \in 1..Len(h) : h[j].t = blast.out.view[k]
    /\ (blast.op = "delta_value" /\ ~blast.out.none) =>
           /\ h # <<>>
           /\ h[Len(h)].t = bnow
           /\ blast.out.view = <<h[Len(h)].v>>

\* C18: mark_invalid clears a buffer output.  Right after it the output is not
\* valid, holds no sample, and its subscribers were notified; from then on
\* value, value_times and delta_value return only samples written after the
\* invalidation, as if the buffer had been filled from empty.
C18_MarkInvalidClears ==
    /\ (ibuf.built /\ ibuf.inv) =>
          /\ blast.op = "mark_invalid" =>
                ~ibuf.valid /\ IStamps = {} /\ ibuf.notified
          /\ ReadsOnly(ibuf.hist, ISize)
    /\ (tbuf.built /\ tbuf.inv) =>
          /\ blast.op = "mark_invalid" =>
                ~tbuf.valid /\ tbuf.times = <<>> /\ tbuf.value = <<>> /\ tbuf.notified
          /\ ReadsOnly(tbuf.hist, Len(tbuf.hist))

\* The samples of the duration-sized buffer's history that lie in the window
\* of the current engine time: those not older than bnow - TSize.
TWindow == SelectSeq(tbuf.hist, LAMBDA x : x.t >= bnow - TSize)

\* C19: for a duration-sized buffer, value and value_times roll the buffer
\* before they read it: every sample they return has a timestamp not older
\* than bnow - TSize, and no sample with a timestamp at or after bnow - TSize
\* is evicted, so what is returned is exactly the samples of the window.
C19_TRollKeepsWindow ==
    tbuf.built =>
        /\ blast.op = "value" =>
              /\ blast.out.view = ValuesOf(TWindow)
              /\ tbuf.times = TimesOf(TWindow)
        /\ blast.op = "value_times" =>
              /\ blast.out.view = TimesOf(TWindow)
              /\ tbuf.value = ValuesOf(TWindow)
        /\ \A k \in 1..Len(TWindow) :
              \E j \in 1..Len(tbuf.times) :
                  tbuf.times[j] = TWindow[k].t /\ tbuf.value[j] = TWindow[k].v

\* value was read from a duration-sized buffer after a roll that evicted a
\* sample and kept the one at the edge of the window.
C19_Witness ==
    /\ tbuf.built /\ blast.op = "value"
    /\ Len(tbuf.hist) > Len(tbuf.times)
    /\ tbuf.times # <<>>
    /\ tbuf.times[1] = bnow - TSize

\* The samples buffered in the duration-sized buffer do not yet cover
\* min_size: there is none although min_size is positive, or the oldest one
\* is less than min_size old.
TNotCovered ==
    \/ tbuf.hist = <<>> /\ tbuf.min_size > 0
    \/ tbuf.hist # <<>> /\ bnow - tbuf.hist[1].t < tbuf.min_size

\* C20: for a duration-sized buffer, value is none until the buffered samples
\* cover at least min_size.
C20_TValueDefinedFromMinSize ==
    (tbuf.built /\ blast.op = "value" /\ TNotCovered) => blast.out.none

\* The sample a buffer of history h was given at the current tick, as
\* delta_value returns it: none when the newest sample is of an earlier tick.
SampleOfTick(h) ==
    IF h # <<>> /\ h[Len(h)].t = bnow THEN Return(<<h[Len(h)].v>>) ELSE ReturnNone

\* C21: delta_value of a buffer output at engine time T is the sample appended
\* at T when one was appended at T, and none otherwise, however many samples
\* were written before (buffer not yet full, exactly full, ring wrapped).
C21_DeltaIsSampleOfTick ==
    blast.op = "delta_value" =>
        /\ ibuf.built => blast.out = SampleOfTick(ibuf.hist)
        /\ tbuf.built => blast.out = SampleOfTick(tbuf.hist)

\* C22: a result of the wrong type given to apply_result of a buffer output
\* is reported as an error and commits nothing: samples, timestamps, start
\* and length, last_modified_time, validity and the modified state are what
\* they were before the call.
C22_TypeMismatchCommitsNothing ==
    [][(blast'.op = "apply_result" /\ blast'.arg # <<>> /\ ~isinstance(blast'.arg)) =>
          /\ blast'.raised
          /\ ibuf.built =>
                /\ ibuf'.value = ibuf.value /\ ibuf'.times = ibuf.times
                /\ ibuf'.start = ibuf.start /\ ibuf'.length = ibuf.length
                /\ ibuf'.last_modified_time = ibuf.last_modified_time
                /\ ibuf'.valid = ibuf.valid /\ ibuf'.hist = ibuf.hist
                /\ BuffModified(ibuf)' <=> BuffModified(ibuf)
          /\ tbuf.built =>
                /\ tbuf'.value = tbuf.value /\ tbuf'.times = tbuf.times
                /\ tbuf'.last_modified_time = tbuf.last_modified_time
                /\ tbuf'.valid = tbuf.valid /\ tbuf'.hist = tbuf.hist
                /\ BuffModified(tbuf)' <=> BuffModified(tbuf)
      ]_vars

\* apply_result raised on a mistyped result given to an integer-sized buffer
\* that holds samples of earlier ticks and was not written at this tick.
C22_Witness ==
    /\ ibuf.built /\ blast.op = "apply_result" /\ blast.raised
    /\ blast.arg # <<>> /\ blast.arg[1] \in Mistyped
    /\ IStamps # {}
    /\ ~BuffModified(ibuf)

\* C26: inside a node, len() of a buffer output is the number of samples the
\* buffer holds at that point: for an integer-sized buffer the number written
\* until it has filled and its capacity from then on, for a duration-sized
\* buffer the number of samples in the window of the current engine time.
C26_LenIsSamplesHeld ==
    blast.op = "len" =>
        /\ ibuf.built => blast.out = Return(<<Len(IHeld)>>)
        /\ tbuf.built => blast.out = Return(<<Len(TWindow)>>)

\* C29: first_modified_time of a buffer is the timestamp of its oldest live
\* entry: for an integer-sized buffer the oldest of the samples held, also
\* when fewer than ISize are held; for a duration-sized buffer the oldest
\* sample of the window, never one older than bnow - TSize.
C29_FirstModifiedTimeOldestLive ==
    blast.op = "first_modified_time" =>
        /\ (ibuf.built /\ IHeld # <<>>) => blast.out = Return(<<IHeld[1].t>>)
        /\ (tbuf.built /\ TWindow # <<>>) => blast.out = Return(<<TWindow[1].t>>)
        /\ (tbuf.built /\ ~blast.out.none /\ blast.out.view[1] # MIN_TD) =>
               blast.out.view[1] >= bnow - TSize

---------------------------------------------------------------------------
\* C11: engine time never regresses and no two ticks share a time value.
\* The times of the ticks are strictly increasing, the engine time is the
\* time of the latest tick, and no event waits for a time at or before the
\* engine time: an event requested for such a time was coalesced into the
\* current tick.
C11_MonotoneClock ==
    /\ \A i \in 1..Len(ticks) : \A j \in 1..Len(ticks) :
           i < j => ticks[i] < ticks[j]
    /\ ticks # <<>> => engine_now = ticks[Len(ticks)]
    /\ \A e \in future_events : e.at > engine_now

\* The reader was requested for a time at or before the engine time and was
\* evaluated within the current tick, which is not the first.
C11_Witness ==
    /\ fb.coalesced /\ fb.yread
    /\ Len(ticks) >= 2
    /\ pending_now = {}

---------------------------------------------------------------------------
\* The key set of the map node's input at the end of tick t; it is empty
\* before the first tick.
KeysAfter(t) == IF t = 0 THEN {} ELSE mp.khist[t]

\* C23: TSD churn in a map node.  At every tick an inner graph is started
\* exactly for the keys that are in the input at the end of the tick and were
\* not at the end of the tick before, and stopped exactly for the keys that
\* were and are no longer: a key added and removed within one tick causes
\* neither, a key added at T1 and removed at T2 > T1 one start at T1 and one
\* stop at T2.  The key set of the output is that of the input at the end of
\* every tick, and so is the set of running inner graphs once the node was
\* evaluated.
C23_TsdChurn ==
    /\ \A t \in 1..Len(mp.khist) : \A k \in MapKeys :
          /\ <<k, t>> \in mp.starts <=>
                 (k \notin KeysAfter(t - 1) /\ k \in KeysAfter(t))
          /\ <<k, t>> \in mp.stops <=>
                 (k \in KeysAfter(t - 1) /\ k \notin KeysAfter(t))
    /\ \A t \in 1..Len(mp.khist) : mp.ohist[t] = mp.khist[t]
    /\ \A s \in mp.starts \cup mp.stops : s[2] <= mp.now
    /\ mp.evaluated => (mp.out_keys = mp.ts.keys /\ mp.graphs = mp.ts.keys)

\* A key was added and removed within one tick that is over, and another key
\* (or the same at other ticks) was added at one tick and removed at a later
\* one.
C23_Witness ==
    /\ \E c \in mp.churned :
          /\ c[2] <= Len(mp.khist)
          /\ c[1] \notin KeysAfter(c[2] - 1) /\ c[1] \notin KeysAfter(c[2])
    /\ \E k \in MapKeys : \E t1 \in 1..MapMaxTime : \E t2 \in 1..MapMaxTime :
          /\ t1 < t2 /\ t2 <= Len(mp.khist)
          /\ <<k, t1>> \in mp.starts /\ <<k, t2>> \in mp.stops

\* C24: lifecycle ordering.  Nodes are started in build order and stopped in
\* reverse build order, a node is evaluated only while it is started, and no
\* event is kept for a node that is not started or is stopped: such events
\* are discarded, never evaluated.
C24_LifecycleOrder ==
    /\ \A i \in 1..Len(lc.start_log) : lc.start_log[i] = i
    /\ \A i \in 1..Len(lc.stop_log) : lc.stop_log[i] = LifeNodeCount + 1 - i
    /\ lc.evals \subseteq {"STARTED"}
    /\ \A e \in lc.future : IsStarted(lc, e.node)
    /\ \A n \in lc.pending : IsStarted(lc, n)
    /\ lc.phase \in {"built", "starting"} => lc.evals = {}
    /\ lc.phase = "stopped" => \A n \in LifeNodes : lc.state[n] = "STOPPED"

\* All nodes were started, some were evaluated, all are stopped again; an
\* event requested for a node that was not started was discarded, and so was
\* an event of a node when it stopped.
C24_Witness ==
    /\ lc.phase = "stopped"
    /\ lc.start_log = <<1, 2, 3>> /\ lc.stop_log = <<3, 2, 1>>
    /\ lc.evals # {}
    /\ lc.discarded.request /\ lc.discarded.stop

\* C25: for a push-source node fed by sender(value) calls of a foreign
\* thread, whatever the interleaving of the calls with the ticks: at most one
\* value is delivered per tick and source, and the values of a source are
\* delivered in the order they were sent (each at most once, none that was
\* not sent).
C25_PushOnePerTickFifo ==
    \A s \in PushSources :
        /\ \A i \in 1..Len(pq.delivered[s]) : \A j \in 1..Len(pq.delivered[s]) :
              i < j => /\ pq.delivered[s][i].t < pq.delivered[s][j].t
                       /\ pq.delivered[s][i].v < pq.delivered[s][j].v
        /\ \A i \in 1..Len(pq.delivered[s]) :
              /\ pq.delivered[s][i].v \in 1..pq.sent[s]
              /\ pq.delivered[s][i].v \notin pq.dropped[s]

\* The queue of one source filled up, a value was dropped and two values
\* were delivered at two ticks, while the other source delivered at the first
\* of them.
C25_Witness ==
    /\ Len(pq.delivered["p"]) >= 2
    /\ pq.dropped["p"] # {}
    /\ pq.delivered["q"] # <<>>
    /\ pq.delivered["q"][1].t = pq.delivered["p"][1].t

\* The overloads whose signature resolves for the argument of the last call,
\* and those of the lowest rank among them.
Resolving == {i \in 1..Len(ow.overloads) : resolves(ow.overloads[i], ow.arg)}
Lowest ==
    {i \in Resolving :
        \A j \in Resolving : ow.overloads[i].rank <= ow.overloads[j].rank}

\* C27: get_best_overload returns the overload of the strictly lowest rank
\* among those whose signature resolves for the arguments, raises WiringError
\* when none resolves and when two or more of the resolving ones tie for the
\* lowest rank, and never returns an overload whose signature did not
\* resolve.
C27_BestOverload ==
    ow.arg # "" =>
        /\ Resolving = {} => ow.best = Raise("WiringError")
        /\ Cardinality(Lowest) > 1 => ow.best = Raise("WiringError")
        /\ Cardinality(Lowest) = 1 =>
               \E i \in Lowest : ow.best = Returns(ow.overloads[i].name)
        /\ ow.best.raised = "" => ow.best.out \in Resolving

\* An implementation was returned although an overload of a lower rank is
\* registered, which did not resolve, and the operator itself resolved too.
C27_Witness ==
    /\ ow.arg # "" /\ ow.best.raised = ""
    /\ Cardinality(Resolving) >= 2
    /\ ow.best.out # 1
    /\ \E j \in 1..Len(ow.overloads) :
          /\ j \notin Resolving
          /\ ow.overloads[j].rank < ow.overloads[ow.best.out].rank

\* The node class and node type that go with a decorator.
ClassOf(decorator) ==
    CASE decorator = "generator" -> "PythonGeneratorWiringNodeClass"
      [] decorator = "graph" -> "GraphWiringNodeClass"
      [] OTHER -> "PythonWiringNodeClass"
TypeOf(decorator) ==
    CASE decorator = "generator" -> "PULL_SOURCE_NODE"
      [] decorator = "compute_node" -> "COMPUTE_NODE"
      [] decorator = "sink_node" -> "SINK_NODE"
      [] OTHER -> "GRPAH"

\* C28: each node decorator makes a wiring node of the matching kind (for a
\* Python implementation: generator a PythonGeneratorWiringNodeClass of type
\* PULL_SOURCE_NODE, compute_node a PythonWiringNodeClass of type
\* COMPUTE_NODE, sink_node a PythonWiringNodeClass of type SINK_NODE, graph a
\* GraphWiringNodeClass of the graph type); the name of the signature is the
\* name of the decorated function, fn is retained, and the valid and ticked
\* constraints given to the decorator are the ones the node declares.
C28_DecoratorMakesMatchingNode ==
    dec.decorator # "" =>
        /\ dec.cpp_impl = None =>
               /\ dec.node.node_class = ClassOf(dec.decorator)
               /\ dec.node.fn = dec.fn
        /\ dec.node.signature.node_type = TypeOf(dec.decorator)
        /\ dec.node.signature.name = dec.fn
        /\ dec.node.fn # ""
        /\ dec.node.signature.ticked = dec.ticked
        /\ dec.node.signature.valid = dec.valid

\* C30: in the TSD table-publishing node, after every evaluation that leaves
\* rows or removals pending (also one at which keys were only removed) a
\* flush wake-up of the node is scheduled, and at most one wake-up is
\* outstanding at any time.
C30_FlushScheduledWhilePending ==
    /\ (pub.evaluated /\ (pub.data # <<>> \/ pub.removed # {})) => is_scheduled(pub)
    /\ Cardinality({w \in pub.wake : w > pub.now}) <= 1

---------------------------------------------------------------------------
\* Claims on the inputs, continued (Spec)

\* C33: for a bound input last_modified_time is the later of the
\* last_modified_time of its output and its sample time, it is never later
\* than the engine time, and the input is modified exactly when its
\* last_modified_time is the engine time; an unbound input has
\* last_modified_time MIN_DT and is not valid.
C33_InputLastModifiedTime ==
    \A i \in Inputs :
        IF output[i] # None
        THEN /\ input_last_modified_time(i) >= last_modified_time[output[i]]
             /\ input_last_modified_time(i) >= sample_time[i]
             /\ input_last_modified_time(i)
                    \in {last_modified_time[output[i]], sample_time[i]}
             /\ input_last_modified_time(i) <= now
             /\ modified(i) <=> input_last_modified_time(i) = now
        ELSE /\ input_last_modified_time(i) = MIN_DT
             /\ ~input_valid(i)

\* At one tick: an input whose output was committed and that was sampled as
\* well, an input modified by its sample alone (its output is older), and at
\* a later tick an input that is bound and not modified.
C33_Witness ==
    /\ now > MIN_DT + 1
    /\ \E i, j \in Inputs :
        /\ i # j
        /\ output[i] # None /\ written[output[i]] # <<>> /\ i \in sampled
        /\ modified(i) /\ input_last_modified_time(i) = now
        /\ output[j] # None /\ j \in sampled
        /\ last_modified_time[output[j]] < now /\ modified(j)

---------------------------------------------------------------------------
\* Claims on the buffer outputs, continued (SpecBuff)

\* The (sample, timestamp) pairs an integer-sized buffer holds, oldest first:
\* the slots start, start + 1, ... (modulo the capacity), length of them.
ILive(b) ==
    [k \in 1..b.length |->
        [v |-> b.value[PyMod(b.start + k - 1, ISize) + 1],
         t |-> b.times[PyMod(b.start + k - 1, ISize) + 1]]]

IShape(b) ==
    /\ 0 <= b.length /\ b.length <= ISize
    /\ 0 <= b.start /\ b.start < ISize
    /\ b.start # 0 => b.length = ISize

\* C34: for an integer-sized buffer output, from construction on,
\* 0 <= length <= size, 0 <= start < size, start is non-zero only when length
\* equals size, and a read of value or value_times leaves the sequence of
\* (sample, timestamp) pairs held as it was.
C34_IBufferShape ==
    /\ [](ibuf.built => IShape(ibuf))
    /\ [][(IValue \/ IValueTimes) => ILive(ibuf') = ILive(ibuf)]_vars

\* C35: for a duration-sized buffer output the values and the timestamps held
\* are equally many, entry i of the one belongs to entry i of the other (they
\* are the value and the time of one write, and the entries are consecutive
\* writes up to the newest), and the timestamps do not decrease from the
\* oldest to the newest entry.
C35_TBufferAligned ==
    tbuf.built =>
        /\ Len(tbuf.value) = Len(tbuf.times)
        /\ Len(tbuf.value) <= Len(tbuf.hist)
        /\ tbuf.value = ValuesOf(LastN(tbuf.hist, Len(tbuf.value)))
        /\ tbuf.times = TimesOf(LastN(tbuf.hist, Len(tbuf.times)))
        /\ \A k \in 1..(Len(tbuf.times) - 1) : tbuf.times[k] <= tbuf.times[k + 1]

\* After a mark_invalid and three writes, a read has evicted the oldest sample
\* and two samples of different values are held.
C35_Witness ==
    /\ tbuf.built /\ tbuf.inv
    /\ blast.op \in {"value", "value_times", "len"}
    /\ Len(tbuf.hist) = 3 /\ Len(tbuf.value) = 2
    /\ tbuf.value[1] # tbuf.value[2]

---------------------------------------------------------------------------
\* Claims on the inspector (SpecInsp, SpecReq)

\* The inspector state tracks the node n: the node itself or one of its
\* values.
Tracked(st, n) ==
    dict_has(st.node_subscriptions, n) \/ st.node_item_subscriptions[n] # {}

\* C36: after any sequence of subscribe_item, unsubscribe_item and collapse
\* the observer is subscribed to a node exactly when the inspector state
\* tracks the node or one of its values, it is subscribed to a graph exactly
\* when the graph is in graph_subscriptions, and no unsubscribe_item and no
\* collapse fails.
C36_ObserverFollowsState ==
    /\ insp.op \in {"unsubscribe_item", "collapse"} => insp.s.raised = ""
    /\ \A n \in NodeIds : n \in insp.s.observer_nodes <=> Tracked(insp.s, n)
    /\ \A g \in GraphIds :
           g \in insp.s.observer_graphs <=> dict_has(insp.s.graph_subscriptions, g)

\* C37: after inspector_collapse_item(X) nothing strictly below X is reported
\* as subscribed by is_item_subscribed, every item below X that was subscribed
\* is in value_removals, and a show of such an item publishes its row again.
C37_CollapseHidesDescendants ==
    (insp.op = "collapse" /\ insp.s.raised = "") =>
        \A d \in Items :
            is_parent_of(insp.item, d) =>
                /\ ~is_item_subscribed(insp.s, d)
                /\ d \in insp.before =>
                       /\ d \in insp.s.value_removals
                       /\ Row(d, "+") \in inspector_show_item(InspCall(insp.s), d).rows

\* What handling the request is to process, in order: the command of the
\* request and after it the commands it spawns.
ExpectedLog(request) ==
    <<Command(request.command, request.item)>> \o
    (IF request.command = "ref" /\ request.item = Input1x
     THEN <<Command("show", Node1), Command("show", Nested),
            Command("show", Node2), Command("show", Output2)>>
     ELSE IF request.command = "ref" /\ request.item = Inputs1
     THEN <<Command("show", Missing)>>
     ELSE <<>>)

---------------------------------------------------------------------------
\* Claims on the manager of the published tables (SpecMgr)

\* C39: in every order of add_table, subscribe_table_updates and start, no
\* update handler is attached to a table that was added as non-editable;
\* subscribing to the updates of a non-editable table raises ValueError and
\* leaves the updaters as they were; and once the manager is started the
\* handler of every subscribed editable table is attached to that table.
C39_NoHandlerOnNonEditable ==
    /\ \A n \in MgrAllNames :
           ptm.updaters[n].table # NoTable => ptm.updaters[n].as_editable
    /\ (ptm.op = "subscribe_table_updates" /\ ptm.non_editable) =>
           (ptm.raised = "ValueError" /\ ptm.updaters = ptm.before)
    /\ ptm.started =>
           \A n \in MgrAllNames :
               (ptm.updaters[n].present /\ ptm.tables[n].present
                                       /\ ptm.tables[n].editable) =>
                   ptm.updaters[n].table = ptm.tables[n].table

\* C31: the table-publishing node calls update_table only in an evaluation at
\* which a wake-up of its own was due; the rows it passes are the rows of the
\* items modified since the flush before, each once and in the order of their
\* arrival, and after the call state.data and state.removed are empty.
C31_FlushOnlyWhenWoken ==
    pub.flushed =>
        /\ pub.evaluated /\ pub.woken
        /\ pub.published = pub.arrived
        /\ pub.data = <<>>
        /\ pub.removed = {}

\* A flush that publishes two rows of one key, which arrived at two ticks,
\* the row of the earlier tick first.
C31_Witness ==
    /\ pub.flushed /\ pub.woken
    /\ Len(pub.published) >= 2
    /\ pub.published[1].key = pub.published[2].key
    /\ pub.published[1].index # pub.published[2].index
    /\ pub.published = pub.arrived

\* C32: with one row per key, after every flush the indices of the rows of the
\* published table are the indices of the keys that are in the TSD, whatever
\* the keys (0 included) and whatever was added, modified, re-indexed and
\* removed between the flushes.
C32_TableMirrorsTsd ==
    pub.flushed => pub.table = {pub.cur[k][1] : k \in pub.keys}

===========================================================================
